---- MODULE Spec2Model ----
(***************************************************************************)
(* A model of the Concourse resource engine: the check-build coordinator   *)
(* of atc/db/resource.go (resource.CreateBuild), its resource store (pins, *)
(* disabled versions, config scope, schedule requests, Versions,           *)
(* Causality) and the job watcher of the watch package                     *)
(* (ListAllJobsWatcher) with the installation of its triggers.             *)
(*                                                                         *)
(* The database is modelled at statement granularity under PostgreSQL's    *)
(* default READ COMMITTED isolation (conn.Begin() is called with no        *)
(* options): a statement reads the rows committed when it runs, a row      *)
(* written by a transaction stays locked until that transaction ends, and  *)
(* all writes of a transaction become visible together at its commit.      *)
(***************************************************************************)
EXTENDS Integers, Sequences, FiniteSets, TLC

VARIABLES
    \* ---- database and bus, as seen by resource.CreateBuild ----
    builds,        \* committed rows of table builds: id -> row
    resources,     \* committed rows of table resources: id -> [build_id]
    rowLock,       \* resources row -> the call whose open transaction wrote it (0: none)
    nextBuildID,   \* the builds id sequence (never rolled back)
    bus,           \* notifications posted on the build tracker channel, oldest first
    calls,         \* one entry per CreateBuild invocation: its position and locals
    \* ---- ListAllJobsWatcher ----
    subscribers,   \* w.subscribers: the subscriptions whose inbound channel is registered
    rlock,         \* publishEvents holds w.mtx.RLock()
    dpc,           \* position of the drain goroutine
    healthy,       \* drain: notif.Healthy of the notification received last
    devts,         \* publishEvents: the events being published
    dtodo,         \* publishEvents: subscribers the range has still to reach
    dcur,          \* publishEvents: the subscriber whose channel is being sent on
    received,      \* notifications drain has taken from the bus
    started,       \* subscription -> WatchListAllJobs has been called
    cancelled,     \* subscription -> its context is cancelled
    inClosed,      \* subscription -> its inbound channel c is closed
    wpc,           \* subscription -> position of watchEvents
    wevts,         \* subscription -> evts received from c, not yet appended
    pendingEvents, \* subscription -> *pendingEvents
    dirty,         \* subscription -> signals buffered in the dirty channel
    spc,           \* subscription -> position of sendEvents ("closed": eventsChan closed)
    eventsToSend,  \* subscription -> the batch sendEvents is forwarding
    delivered,     \* subscription -> batches the consumer has received, oldest first
    published,     \* subscription -> events publishEvents has sent on c, oldest first
    \* ---- the resource store: pins, disabled versions, scope, schedule bumps ----
    pins,              \* committed rows of resource_pins: resource -> row, or NoPin
    disabled,          \* committed rows of resource_disabled_versions: <<resource, version_md5>>
    resourceScopes,    \* resources.resource_config_id / resource_config_scope_id (0: NULL),
                       \*     with build_id (0: NULL) and active
    scheduleRequested, \* jobs.schedule_requested: job -> timestamp
    rcvs,              \* rows of resource_config_versions: id -> row
    workerCaches,      \* rows of worker_resource_caches: the resource_cache_id of each
    handle,            \* resource -> the fields of the in-memory resource object
    txs,               \* open transactions of the store: slot -> position and locals
    clock,             \* the database clock: transactions begun so far
    lastRet,           \* what the store operation that returned last has returned
    versionsOut,       \* what the last call of Versions has returned
    \* ---- resource.Causality ----
    buildPipes,        \* rows of build_pipes: <<from_build_id, to_build_id>>
    buildInputs,       \* rows of build_resource_config_version_inputs:
                       \*     <<build_id, resource_id, version_md5>>
    buildOutputs,      \* rows of build_resource_config_version_outputs, likewise
    walk,              \* the call of Causality: its position, locals and graph
    \* ---- ListAllJobsWatcher.setupTriggers ----
    lockHolder,        \* the node holding the lock CreateWatchTriggers (0: free)
    installed,         \* the notify function and triggers committed in the database
    setups             \* node -> position and transaction of its setupTriggers

buildVars == <<builds, resources, rowLock, nextBuildID, bus, calls>>

watchVars ==
    <<subscribers, rlock, dpc, healthy, devts, dtodo, dcur, received, started, cancelled,
      inClosed, wpc, wevts, pendingEvents, dirty, spc, eventsToSend, delivered,
      published>>

storeVars ==
    <<pins, disabled, resourceScopes, scheduleRequested, rcvs, workerCaches, handle, txs,
      clock, lastRet, versionsOut>>

causalVars == <<buildPipes, buildInputs, buildOutputs, walk>>

setupVars == <<lockHolder, installed, setups>>

vars == <<buildVars, watchVars, storeVars, causalVars, setupVars>>

-----------------------------------------------------------------------------
(* Bounds of the model. *)

MaxCalls == 3

NumResources == 2

\* Invocations of CreateBuild in progress at the same time.
MaxConcurrent == 2

\* Subscriptions made with WatchListAllJobs.
NumSubs == 2

\* Notifications the drain loop receives.
MaxNotifs == 3

\* Jobs of the pipeline.
NumJobs == 2

\* Transactions the resource store begins.
MaxOps == 3

\* Rows of resource_config_versions in the ledgers Versions is applied to.
MaxRows == 3

\* The largest page.Limit passed to Versions.
MaxLimit == 2

\* Builds with rows in build_pipes and in the input and output tables.
NumBuilds == 2

\* ATC nodes that construct a ListAllJobsWatcher.
NumNodes == 2

Calls == 1..MaxCalls

Resources == 1..NumResources

-----------------------------------------------------------------------------
(* Program constants. *)

CheckBuildName == "check"

ComponentBuildTracker == "build_tracker"

-----------------------------------------------------------------------------
(* resource.CreateBuild *)

NoCall ==
    [pc |-> "idle", resource |-> 0, manuallyTriggered |-> FALSE,
     scanned |-> "none",
     build |-> 0, ret |-> "none", retBuild |-> 0]

\* The rows of builds with resource_id = r that a statement sees.
BuildsOf(r) == {b \in DOMAIN builds : builds[b].resource_id = r}

\* SELECT completed FROM builds WHERE resource_id = r, read with QueryRow().Scan:
\* the statement has no ORDER BY and no LIMIT, QueryRow scans the first row the
\* database returns, so any row of the resource can be the one scanned.
\* "noBuild" stands for sql.ErrNoRows.
ScanCompleted(r) ==
    IF BuildsOf(r) = {}
    THEN {"noBuild"}
    ELSE {IF builds[b].completed THEN "completed" ELSE "running" : b \in BuildsOf(r)}

\* if !noBuild && !completed { return nil, false, nil }
LeaveItBe(scanned) == scanned = "running"

\* A CreateBuild that runs the prior-build query for manual calls too.
SkipsCheckNever(manuallyTriggered) == FALSE

\* if !manuallyTriggered { ... }: a manually triggered call skips the query.
SkipsCheck(manuallyTriggered) == manuallyTriggered

\* createStartedBuild with Name: CheckBuildName and ExtraValues resource_id.
StartedBuild(r, manuallyTriggered) ==
    [name |-> CheckBuildName, resource_id |-> r, status |-> "started",
     completed |-> FALSE, manually_triggered |-> manuallyTriggered]

\* Invocations are numbered in the order in which they are made.
NextCall(c) ==
    /\ calls[c].pc = "idle"
    /\ \A d \in Calls : d < c => calls[d].pc # "idle"
    /\ Cardinality({d \in Calls : calls[d].pc \notin {"idle", "done"}}) < MaxConcurrent

\* tx, err := r.conn.Begin()
\* if !manuallyTriggered { SELECT completed ...; if !noBuild && !completed return }
\* Begin reads and writes no row, so it is taken together with the first statement.
CreateBuildCheck(c, r, m) ==
    /\ NextCall(c)
    /\ LET call == [NoCall EXCEPT !.resource = r, !.manuallyTriggered = m] IN
       IF SkipsCheck(m)
       THEN calls' = [calls EXCEPT ![c] = [call EXCEPT !.pc = "checked"]]
       ELSE \E scanned \in ScanCompleted(r) :
               LET seen == [call EXCEPT !.scanned = scanned]
               IN  IF LeaveItBe(scanned)
                   THEN calls' = [calls EXCEPT ![c] =
                                     [seen EXCEPT !.pc = "done", !.ret = "noop"]]
                   ELSE calls' = [calls EXCEPT ![c] =
                                     [seen EXCEPT !.pc = "checked"]]
    /\ UNCHANGED <<builds, resources, rowLock, nextBuildID, bus>>
    /\ UNCHANGED <<watchVars, storeVars, causalVars, setupVars>>

\* createStartedBuild(tx, build, ...): the row is inserted in the open transaction.
CreateBuildInsert(c) ==
    /\ calls[c].pc = "checked"
    /\ calls' = [calls EXCEPT ![c].pc = "inserted", ![c].build = nextBuildID]
    /\ nextBuildID' = nextBuildID + 1
    /\ UNCHANGED <<builds, resources, rowLock, bus>>
    /\ UNCHANGED <<watchVars, storeVars, causalVars, setupVars>>

\* UPDATE resources SET build_id = build.ID() WHERE id = r.id: waits for the row lock.
CreateBuildLink(c) ==
    /\ calls[c].pc = "inserted"
    /\ rowLock[calls[c].resource] = 0
    /\ rowLock' = [rowLock EXCEPT ![calls[c].resource] = c]
    /\ calls' = [calls EXCEPT ![c].pc = "updated"]
    /\ UNCHANGED <<builds, resources, nextBuildID, bus>>
    /\ UNCHANGED <<watchVars, storeVars, causalVars, setupVars>>

\* A commit that publishes the build row but leaves resources.build_id as it was.
CreateBuildCommitNoLink(c) ==
    /\ calls[c].pc = "updated"
    /\ LET r == calls[c].resource
           b == calls[c].build
       IN  /\ builds' = [x \in DOMAIN builds \cup {b} |->
                            IF x = b
                            THEN StartedBuild(r, calls[c].manuallyTriggered)
                            ELSE builds[x]]
           /\ resources' = resources
           /\ rowLock' = [rowLock EXCEPT ![r] = 0]
    /\ calls' = [calls EXCEPT ![c].pc = "committed"]
    /\ UNCHANGED <<nextBuildID, bus>>
    /\ UNCHANGED <<watchVars, storeVars, causalVars, setupVars>>

\* tx.Commit(): the inserted row and the new build_id become visible together.
CreateBuildCommit(c) ==
    /\ calls[c].pc = "updated"
    /\ LET r == calls[c].resource
           b == calls[c].build
       IN  /\ builds' = [x \in DOMAIN builds \cup {b} |->
                            IF x = b
                            THEN StartedBuild(r, calls[c].manuallyTriggered)
                            ELSE builds[x]]
           /\ resources' = [resources EXCEPT ![r].build_id = b]
           /\ rowLock' = [rowLock EXCEPT ![r] = 0]
    /\ calls' = [calls EXCEPT ![c].pc = "committed"]
    /\ UNCHANGED <<nextBuildID, bus>>
    /\ UNCHANGED <<watchVars, storeVars, causalVars, setupVars>>

\* Any statement of the transaction, or its commit, fails: return nil, false, err;
\* the deferred Rollback(tx) discards the transaction's writes.
CreateBuildTxError(c) ==
    /\ calls[c].pc \in {"checked", "inserted", "updated"}
    /\ rowLock' = [r \in Resources |-> IF rowLock[r] = c THEN 0 ELSE rowLock[r]]
    /\ calls' = [calls EXCEPT ![c].pc = "done", ![c].ret = "txError"]
    /\ UNCHANGED <<builds, resources, nextBuildID, bus>>
    /\ UNCHANGED <<watchVars, storeVars, causalVars, setupVars>>

\* A Notify whose failure takes the build row back, as a Notify issued inside the
\* transaction would.
CreateBuildNotifyUndo(c) ==
    /\ calls[c].pc = "committed"
    /\ \/ /\ bus' = Append(bus, [channel |-> ComponentBuildTracker, by |-> c])
          /\ calls' = [calls EXCEPT ![c].pc = "notified"]
          /\ UNCHANGED <<builds, resources>>
       \/ /\ bus' = bus
          /\ calls' = [calls EXCEPT ![c].pc = "done", ![c].ret = "notifyError"]
          /\ builds' = [x \in DOMAIN builds \ {calls[c].build} |-> builds[x]]
          /\ resources' = [resources EXCEPT ![calls[c].resource].build_id = 0]
    /\ UNCHANGED <<rowLock, nextBuildID>>
    /\ UNCHANGED <<watchVars, storeVars, causalVars, setupVars>>

\* err = r.conn.Bus().Notify(atc.ComponentBuildTracker)
CreateBuildNotify(c) ==
    /\ calls[c].pc = "committed"
    /\ \/ /\ bus' = Append(bus, [channel |-> ComponentBuildTracker, by |-> c])
          /\ calls' = [calls EXCEPT ![c].pc = "notified"]
       \/ /\ bus' = bus
          /\ calls' = [calls EXCEPT ![c].pc = "done", ![c].ret = "notifyError"]
    /\ UNCHANGED <<builds, resources, rowLock, nextBuildID>>
    /\ UNCHANGED <<watchVars, storeVars, causalVars, setupVars>>

\* _, err = build.Reload(); return build, true, nil
CreateBuildReload(c) ==
    /\ calls[c].pc = "notified"
    /\ \/ calls' = [calls EXCEPT ![c].pc = "done", ![c].ret = "created",
                                 ![c].retBuild = calls[c].build]
       \/ calls' = [calls EXCEPT ![c].pc = "done", ![c].ret = "reloadError"]
    /\ UNCHANGED <<builds, resources, rowLock, nextBuildID, bus>>
    /\ UNCHANGED <<watchVars, storeVars, causalVars, setupVars>>

\* The build's lifecycle is managed outside the resource store: a started build
\* finishes at some point.
CompleteBuild(b) ==
    /\ b \in DOMAIN builds
    /\ ~builds[b].completed
    /\ builds' = [builds EXCEPT ![b].completed = TRUE, ![b].status = "succeeded"]
    /\ UNCHANGED <<resources, rowLock, nextBuildID, bus, calls>>
    /\ UNCHANGED <<watchVars, storeVars, causalVars, setupVars>>

InitBuild ==
    /\ builds = <<>>
    /\ resources = [r \in Resources |-> [build_id |-> 0]]
    /\ rowLock = [r \in Resources |-> 0]
    /\ nextBuildID = 1
    /\ bus = <<>>
    /\ calls = [c \in Calls |-> NoCall]

-----------------------------------------------------------------------------
(* ListAllJobsWatcher: drain, process, publishEvents, and per subscription   *)
(* the goroutines watchEvents and sendEvents started by WatchListAllJobs.    *)
(* A subscription s stands for its inbound channel c (the key of             *)
(* w.subscribers), its consumer-facing channel eventsChan, its dirty channel *)
(* and its pendingEvents buffer.  The critical sections of w.mtx taken by    *)
(* subscribe, unsubscribe, terminateSubscribers and noSubscribers, and those *)
(* of the subscription's mtx, do not block inside, so each is one step; the  *)
(* read lock of publishEvents is held across its channel sends.              *)

Subs == 1..NumSubs

\* capacity of make(chan struct{}) in WatchListAllJobs
DirtyCap == 0

\* An atc.JobSummary, as the dashboard query returns it.
JobSummary(id) == [ID |-> id, Name |-> "job"]

\* A JobSummaryEvent; Job is a pointer, <<>> when nil.
Event(id, type) == [ID |-> id, Type |-> type, Job |-> <<>>]

\* A healthy db.Notification: its payload is JSON or not, and when it is, it
\* decodes to Table, Operation and Data["id"], a string.
Notif(table, op, id) ==
    [Healthy |-> TRUE, JSON |-> TRUE, Table |-> table, Operation |-> op, ID |-> id]

\* strconv.Atoi on the strings that occur as Data["id"].
Atoi(raw) ==
    IF raw = "1" THEN [val |-> 1, err |-> FALSE]
    ELSE IF raw = "2" THEN [val |-> 2, err |-> FALSE]
    ELSE [val |-> 0, err |-> TRUE]

\* What fetchJobs can return for the predicate of a notification: an error,
\* or the dashboard: j.id = id selects at most that job; p.id = id and
\* tm.id = id select the jobs of a pipeline or team (here none, or jobs 1
\* and 2).
FetchJobs(notif) ==
    {[jobs |-> <<>>, err |-> TRUE]}
        \cup {[jobs |-> jobs, err |-> FALSE] :
                 jobs \in IF notif.Table = "jobs"
                          THEN {<<>>, <<JobSummary(Atoi(notif.ID).val)>>}
                          ELSE {<<>>, <<JobSummary(1), JobSummary(2)>>}}

\* A mutant of Process: the Put events do not carry the job.
ProcessPutWithoutJob(notif, fetch) ==
    LET id == Atoi(notif.ID)
    IN IF ~notif.JSON
       THEN [evts |-> <<>>, err |-> TRUE]
       ELSE IF notif.Table = "jobs" /\ notif.Operation = "DELETE"
       THEN [evts |-> <<Event(id.val, "Delete")>>, err |-> FALSE]
       ELSE IF notif.Table \notin {"jobs", "pipelines", "teams"}
       THEN [evts |-> <<>>, err |-> FALSE]
       ELSE IF id.err \/ fetch.err
       THEN [evts |-> <<>>, err |-> TRUE]
       ELSE IF Len(fetch.jobs) = 0
       THEN IF notif.Table = "jobs" /\ notif.Operation = "UPDATE"
            THEN [evts |-> <<Event(id.val, "Delete")>>, err |-> FALSE]
            ELSE [evts |-> <<>>, err |-> FALSE]
       ELSE [evts |-> [i \in 1..Len(fetch.jobs) |-> Event(fetch.jobs[i].ID, "Put")],
             err |-> FALSE]

\* process(payload) with at least one subscriber: the events it publishes
\* (<<>> when it publishes nothing) and whether it returns an error, given
\* what fetchJobs returns if it is called.  For a jobs DELETE the event is
\* published before the error of intEqPred is looked at.
Process(notif, fetch) ==
    LET id == Atoi(notif.ID)
    IN IF ~notif.JSON
       THEN [evts |-> <<>>, err |-> TRUE]
       ELSE IF notif.Table = "jobs" /\ notif.Operation = "DELETE"
       THEN [evts |-> <<Event(id.val, "Delete")>>, err |-> FALSE]
       ELSE IF notif.Table \notin {"jobs", "pipelines", "teams"}
       THEN [evts |-> <<>>, err |-> FALSE]
       ELSE IF id.err \/ fetch.err
       THEN [evts |-> <<>>, err |-> TRUE]
       ELSE IF Len(fetch.jobs) = 0
       THEN IF notif.Table = "jobs" /\ notif.Operation = "UPDATE"
            THEN [evts |-> <<Event(id.val, "Delete")>>, err |-> FALSE]
            ELSE [evts |-> <<>>, err |-> FALSE]
       ELSE [evts |-> [i \in 1..Len(fetch.jobs) |->
                          [ID |-> fetch.jobs[i].ID, Type |-> "Put",
                           Job |-> <<fetch.jobs[i]>>]],
             err |-> FALSE]

\* The healthy notifications the bus delivers in this model.
Notifications ==
    {Notif("jobs", "DELETE", "1"), Notif("pipelines", "UPDATE", "1")}

\* The payloads process is applied to: every table and operation the
\* triggers notify of, a table without trigger, an id that is not an
\* integer, and a payload that is not JSON.
Payloads ==
    {Notif("jobs", op, id) : op \in {"INSERT", "UPDATE", "DELETE"}, id \in {"1", "x"}}
        \cup {Notif(table, "UPDATE", id) : table \in {"pipelines", "teams"}, id \in {"1", "x"}}
        \cup {Notif("builds", "UPDATE", "1")}
        \cup {[Notif("", "", "") EXCEPT !.JSON = FALSE]}

\* A terminateSubscribers that closes the channels and keeps them registered.
TerminatedKept(subs) == subs

\* terminateSubscribers: delete(w.subscribers, c) for every c; what remains.
Terminated(subs) == {}

\* drain, Healthy = false: terminateSubscribers closes and deletes every channel.
DrainTerminate ==
    /\ dpc = "recv"
    /\ received < MaxNotifs
    /\ received' = received + 1
    /\ healthy' = FALSE
    /\ inClosed' = [s \in Subs |-> inClosed[s] \/ s \in subscribers]
    /\ subscribers' = Terminated(subscribers)
    /\ UNCHANGED <<rlock, dpc, devts, dtodo, dcur, started, cancelled, wpc, wevts,
                   pendingEvents, dirty, spc, eventsToSend, delivered, published>>
    /\ UNCHANGED <<buildVars, storeVars, causalVars, setupVars>>

\* drain, Healthy = true: process up to the call of publishEvents.
DrainProcess(notif, fetch) ==
    /\ dpc = "recv"
    /\ received < MaxNotifs
    /\ received' = received + 1
    /\ healthy' = notif.Healthy
    /\ IF subscribers = {} \/ Process(notif, fetch).evts = <<>>
       THEN UNCHANGED <<dpc, devts>>
       ELSE /\ dpc' = "publish"
            /\ devts' = Process(notif, fetch).evts
    /\ UNCHANGED <<subscribers, rlock, dtodo, dcur, started, cancelled, inClosed, wpc,
                   wevts, pendingEvents, dirty, spc, eventsToSend, delivered, published>>
    /\ UNCHANGED <<buildVars, storeVars, causalVars, setupVars>>

\* publishEvents: w.mtx.RLock(), and the range over w.subscribers picks its
\* first channel (Go leaves the order of a map range unspecified).
PublishBegin ==
    /\ dpc = "publish"
    /\ IF subscribers = {}
       THEN /\ dpc' = "recv"
            /\ devts' = <<>>
            /\ UNCHANGED <<rlock, dtodo, dcur>>
       ELSE \E s \in subscribers :
               /\ dcur' = s
               /\ dtodo' = subscribers \ {s}
               /\ rlock' = TRUE
               /\ dpc' = "sending"
               /\ UNCHANGED devts
    /\ UNCHANGED <<subscribers, received, healthy, started, cancelled, inClosed, wpc, wevts,
                   pendingEvents, dirty, spc, eventsToSend, delivered, published>>
    /\ UNCHANGED <<buildVars, storeVars, causalVars, setupVars>>

\* publishEvents: c <- evts on the unbuffered channel of the current subscriber,
\* received by its watchEvents (case evts, ok := <-c); then the next channel of
\* the range, or RUnlock after the last one.  A send on a closed channel panics.
PublishSend ==
    /\ dpc = "sending"
    /\ IF inClosed[dcur]
       THEN /\ dpc' = "panic"
            /\ UNCHANGED <<rlock, devts, dtodo, dcur, wpc, wevts, published>>
       ELSE /\ wpc[dcur] = "select"
            /\ wpc' = [wpc EXCEPT ![dcur] = "lock"]
            /\ wevts' = [wevts EXCEPT ![dcur] = devts]
            /\ published' = [published EXCEPT ![dcur] = @ \o devts]
            /\ IF dtodo = {}
               THEN /\ rlock' = FALSE
                    /\ dpc' = "recv"
                    /\ dcur' = 0
                    /\ devts' = <<>>
                    /\ dtodo' = {}
               ELSE \E t \in dtodo :
                       /\ dcur' = t
                       /\ dtodo' = dtodo \ {t}
                       /\ UNCHANGED <<rlock, dpc, devts>>
    /\ UNCHANGED <<subscribers, received, healthy, started, cancelled, inClosed,
                   pendingEvents, dirty, spc, eventsToSend, delivered>>
    /\ UNCHANGED <<buildVars, storeVars, causalVars, setupVars>>

\* WatchListAllJobs: makes the channels and the buffer, starts both goroutines.
\* Subscriptions are numbered in the order in which they are made.
WatchListAllJobs(s) ==
    /\ ~started[s]
    /\ \A t \in Subs : t < s => started[t]
    /\ started' = [started EXCEPT ![s] = TRUE]
    /\ wpc' = [wpc EXCEPT ![s] = "subscribe"]
    /\ spc' = [spc EXCEPT ![s] = "loop"]
    /\ UNCHANGED <<subscribers, rlock, dpc, healthy, devts, dtodo, dcur, received, cancelled,
                   inClosed, wevts, pendingEvents, dirty, eventsToSend, delivered,
                   published>>
    /\ UNCHANGED <<buildVars, storeVars, causalVars, setupVars>>

\* watchEvents: c := w.subscribe(), under w.mtx.Lock().
Subscribe(s) ==
    /\ wpc[s] = "subscribe"
    /\ ~rlock
    /\ subscribers' = subscribers \cup {s}
    /\ wpc' = [wpc EXCEPT ![s] = "select"]
    /\ UNCHANGED <<rlock, dpc, devts, dtodo, dcur, received, healthy, started, cancelled,
                   inClosed, wevts, pendingEvents, dirty, spc, eventsToSend,
                   delivered, published>>
    /\ UNCHANGED <<buildVars, storeVars, causalVars, setupVars>>

\* watchEvents: case <-ctx.Done(): return
WatchCtxDone(s) ==
    /\ wpc[s] = "select"
    /\ cancelled[s]
    /\ wpc' = [wpc EXCEPT ![s] = "unsubscribe"]
    /\ UNCHANGED <<subscribers, rlock, dpc, healthy, devts, dtodo, dcur, received, started,
                   cancelled, inClosed, wevts, pendingEvents, dirty, spc,
                   eventsToSend, delivered, published>>
    /\ UNCHANGED <<buildVars, storeVars, causalVars, setupVars>>

\* watchEvents: case evts, ok := <-c with !ok: return
WatchChannelClosed(s) ==
    /\ wpc[s] = "select"
    /\ inClosed[s]
    /\ wpc' = [wpc EXCEPT ![s] = "unsubscribe"]
    /\ UNCHANGED <<subscribers, rlock, dpc, healthy, devts, dtodo, dcur, received, started,
                   cancelled, inClosed, wevts, pendingEvents, dirty, spc,
                   eventsToSend, delivered, published>>
    /\ UNCHANGED <<buildVars, storeVars, causalVars, setupVars>>

\* A mutant of Invalidate: the dirty channel buffers one signal.
InvalidateBuffered(pc, buffered) ==
    IF pc = "select" /\ buffered = 0
    THEN <<"swap", buffered>>
    ELSE IF buffered < 1
    THEN <<pc, buffered + 1>>
    ELSE <<pc, buffered>>

\* invalidate(dirty), a non-blocking send: it is received at once when sendEvents
\* waits in its first select, is buffered while the channel has room, and is
\* dropped otherwise.  The result is <<spc, dirty>> of the subscription.
Invalidate(pc, buffered) ==
    IF pc = "select" /\ buffered = 0
    THEN <<"swap", buffered>>
    ELSE IF buffered < DirtyCap
    THEN <<pc, buffered + 1>>
    ELSE <<pc, buffered>>

\* An append that puts the new events in front of the buffered ones.
AppendedInFront(pending, evts) == evts \o pending

\* *pendingEvents = append(*pendingEvents, evts...)
Appended(pending, evts) == pending \o evts

\* watchEvents: mtx.Lock(); append; if len > 0 { invalidate(dirty) }; mtx.Unlock()
WatchAppend(s) ==
    /\ wpc[s] = "lock"
    /\ pendingEvents' = [pendingEvents EXCEPT ![s] = Appended(@, wevts[s])]
    /\ wevts' = [wevts EXCEPT ![s] = <<>>]
    /\ wpc' = [wpc EXCEPT ![s] = "select"]
    /\ IF Len(pendingEvents'[s]) > 0
       THEN /\ spc' = [spc EXCEPT ![s] = Invalidate(spc[s], dirty[s])[1]]
            /\ dirty' = [dirty EXCEPT ![s] = Invalidate(spc[s], dirty[s])[2]]
       ELSE UNCHANGED <<spc, dirty>>
    /\ UNCHANGED <<subscribers, rlock, dpc, healthy, devts, dtodo, dcur, received, started,
                   cancelled, inClosed, eventsToSend, delivered, published>>
    /\ UNCHANGED <<buildVars, storeVars, causalVars, setupVars>>

\* watchEvents: defer w.unsubscribe(c), under w.mtx.Lock().
Unsubscribe(s) ==
    /\ wpc[s] = "unsubscribe"
    /\ ~rlock
    /\ subscribers' = subscribers \ {s}
    /\ wpc' = [wpc EXCEPT ![s] = "done"]
    /\ UNCHANGED <<rlock, dpc, devts, dtodo, dcur, received, healthy, started, cancelled,
                   inClosed, wevts, pendingEvents, dirty, spc, eventsToSend,
                   delivered, published>>
    /\ UNCHANGED <<buildVars, storeVars, causalVars, setupVars>>

\* sendEvents reaches its first select: it takes a buffered dirty signal or
\* starts to wait.
SendEventsSelect(s) ==
    /\ spc[s] = "loop"
    /\ IF dirty[s] > 0
       THEN /\ dirty' = [dirty EXCEPT ![s] = @ - 1]
            /\ spc' = [spc EXCEPT ![s] = "swap"]
       ELSE /\ spc' = [spc EXCEPT ![s] = "select"]
            /\ UNCHANGED dirty
    /\ UNCHANGED <<subscribers, rlock, dpc, healthy, devts, dtodo, dcur, received, started,
                   cancelled, inClosed, wpc, wevts, pendingEvents, eventsToSend,
                   delivered, published>>
    /\ UNCHANGED <<buildVars, storeVars, causalVars, setupVars>>

\* sendEvents: case <-ctx.Done(): return, in either select; defer close(eventsChan).
SendEventsCtxDone(s) ==
    /\ spc[s] \in {"select", "send"}
    /\ cancelled[s]
    /\ spc' = [spc EXCEPT ![s] = "closed"]
    /\ eventsToSend' = [eventsToSend EXCEPT ![s] = <<>>]
    /\ UNCHANGED <<subscribers, rlock, dpc, healthy, devts, dtodo, dcur, received, started,
                   cancelled, inClosed, wpc, wevts, pendingEvents, dirty, delivered,
                   published>>
    /\ UNCHANGED <<buildVars, storeVars, causalVars, setupVars>>

\* sendEvents: mtx.Lock(); eventsToSend := copy of pendingEvents;
\* *pendingEvents = (*pendingEvents)[:0]; mtx.Unlock()
SendEventsSwap(s) ==
    /\ spc[s] = "swap"
    /\ eventsToSend' = [eventsToSend EXCEPT ![s] = pendingEvents[s]]
    /\ pendingEvents' = [pendingEvents EXCEPT ![s] = <<>>]
    /\ spc' = [spc EXCEPT ![s] = "send"]
    /\ UNCHANGED <<subscribers, rlock, dpc, healthy, devts, dtodo, dcur, received, started,
                   cancelled, inClosed, wpc, wevts, dirty, delivered, published>>
    /\ UNCHANGED <<buildVars, storeVars, causalVars, setupVars>>

\* sendEvents: case eventsChan <- eventsToSend, received by the consumer.
SendEventsDeliver(s) ==
    /\ spc[s] = "send"
    /\ delivered' = [delivered EXCEPT ![s] = Append(@, eventsToSend[s])]
    /\ eventsToSend' = [eventsToSend EXCEPT ![s] = <<>>]
    /\ spc' = [spc EXCEPT ![s] = "loop"]
    /\ UNCHANGED <<subscribers, rlock, dpc, healthy, devts, dtodo, dcur, received, started,
                   cancelled, inClosed, wpc, wevts, pendingEvents, dirty, published>>
    /\ UNCHANGED <<buildVars, storeVars, causalVars, setupVars>>

\* The consumer cancels the context it passed to WatchListAllJobs.
Cancel(s) ==
    /\ started[s]
    /\ ~cancelled[s]
    /\ cancelled' = [cancelled EXCEPT ![s] = TRUE]
    /\ UNCHANGED <<subscribers, rlock, dpc, healthy, devts, dtodo, dcur, received, started,
                   inClosed, wpc, wevts, pendingEvents, dirty, spc, eventsToSend,
                   delivered, published>>
    /\ UNCHANGED <<buildVars, storeVars, causalVars, setupVars>>

InitWatch ==
    /\ subscribers = {}
    /\ rlock = FALSE
    /\ dpc = "recv"
    /\ healthy = TRUE
    /\ devts = <<>>
    /\ dtodo = {}
    /\ dcur = 0
    /\ received = 0
    /\ started = [s \in Subs |-> FALSE]
    /\ cancelled = [s \in Subs |-> FALSE]
    /\ inClosed = [s \in Subs |-> FALSE]
    /\ wpc = [s \in Subs |-> "none"]
    /\ wevts = [s \in Subs |-> <<>>]
    /\ pendingEvents = [s \in Subs |-> <<>>]
    /\ dirty = [s \in Subs |-> 0]
    /\ spc = [s \in Subs |-> "none"]
    /\ eventsToSend = [s \in Subs |-> <<>>]
    /\ delivered = [s \in Subs |-> <<>>]
    /\ published = [s \in Subs |-> <<>>]

-----------------------------------------------------------------------------
(* The resource store: SetResourceConfigScope, PinVersion, UnpinVersion,     *)
(* SetPinComment, EnableVersion, DisableVersion, UpdateMetadata,             *)
(* ClearResourceCache, Reload, Versions and requestScheduleForJobsUsing-     *)
(* Resource.  A transaction occupies a slot of txs from conn.Begin() until   *)
(* it commits or rolls back; a row it has written stays locked until then,   *)
(* and a statement that needs a locked row waits (its action is disabled).   *)

Jobs == 1..NumJobs

Txs == 1..MaxConcurrent

\* Table job_inputs: job j takes resource r as an input.
JobInputs == {<<j, r>> \in Jobs \X Resources : j >= r}

\* An atc.Version: a JSON object, as its set of key/value pairs.
Version(ref) == {<<"ref", ref>>}

\* md5(version json), the key of resource_disabled_versions and resource_caches.
Md5(version) == <<"md5", version>>

\* SQL NULL in an integer or text column, and the Go zero value it scans to.
Null == 0

NoPin == [exists |-> FALSE]

PinRow(version, comment, config) ==
    [exists |-> TRUE, version |-> version, comment_text |-> comment, config |-> config]

\* A row of resources as resourcesQuery selects it: resource_config_id,
\* resource_config_scope_id, the id of the build joined on build_id, and the
\* active column of its WHERE clause.  A saved resource is active and has no
\* build.
ResourceRow(config, scope) ==
    [config |-> config, scope |-> scope, build |-> Null, active |-> TRUE]

\* A ResourceConfigScope: scope.ID() and scope.ResourceConfig().ID().
Scopes == {[id |-> 1, config |-> 1], [id |-> 2, config |-> 1]}

\* Metadata fields of a version, as their set of name/value pairs; a NULL
\* metadata column scans to none.
Metadata(value) == {<<"commit", value>>}

NoMetadata == {}

RCV(scope, version, checkOrder) ==
    [scope |-> scope, version |-> version, check_order |-> checkOrder,
     metadata |-> NoMetadata]

\* The ledger of the store's initial state: two versions in scope 1.
Ledger == <<RCV(1, Version("a"), 1), RCV(1, Version("b"), 2)>>

\* Ids a caller passes as rcvID: those of the ledger and 0, which no row has.
RCVIDs == 0..Len(Ledger)

\* Table resource_caches: id -> (resource_config_id, version_md5).
ResourceCaches ==
    <<[config |-> 1, version_md5 |-> Md5(Version("a"))],
      [config |-> 1, version_md5 |-> Md5(Version("b"))],
      [config |-> 2, version_md5 |-> Md5(Version("a"))]>>

\* A nil atc.Version.
NilVersion == {}

\* scanResource: the pin, scope and build fields of the resource object after
\* it has scanned the committed row; h is the object before the scan.  The
\* pin fields are assigned on either branch, the others only when the column
\* is not NULL.
ScanResource(h, pin, row) ==
    [configPinnedVersion |->
         IF pin.exists /\ pin.config THEN pin.version ELSE NilVersion,
     apiPinnedVersion |->
         IF pin.exists /\ ~pin.config THEN pin.version ELSE NilVersion,
     pinComment |-> IF pin.exists THEN pin.comment_text ELSE "",
     resourceConfigID |-> IF row.config # Null THEN row.config ELSE h.resourceConfigID,
     resourceConfigScopeID |-> IF row.scope # Null THEN row.scope ELSE h.resourceConfigScopeID,
     buildSummary |-> IF row.build # Null THEN row.build ELSE h.buildSummary]

\* A resource object as Go allocates it.
ZeroResource ==
    [configPinnedVersion |-> NilVersion, apiPinnedVersion |-> NilVersion, pinComment |-> "",
     resourceConfigID |-> Null, resourceConfigScopeID |-> Null, buildSummary |-> Null]

CurrentPinnedVersion(h) ==
    IF h.configPinnedVersion # NilVersion THEN h.configPinnedVersion
    ELSE IF h.apiPinnedVersion # NilVersion THEN h.apiPinnedVersion
    ELSE NilVersion

IdleTx ==
    [pc |-> "idle", op |-> "none", resource |-> 0, arg |-> 0, now |-> 0, todo |-> <<>>,
     held |-> {}]

\* The result of the operation that returned last.
Ret(op, r, arg, ret, rows) == [op |-> op, resource |-> r, arg |-> arg, ret |-> ret, rows |-> rows]

NoRet == Ret("none", 0, 0, "none", 0)

RECURSIVE Descending(_)
\* The elements of a set of integers, largest first.
Descending(S) ==
    IF S = {} THEN <<>>
    ELSE LET m == CHOOSE x \in S : \A y \in S : y <= x
         IN <<m>> \o Descending(S \ {m})

RECURSIVE Ascending(_)
\* The elements of a set of integers, smallest first.
Ascending(S) ==
    IF S = {} THEN <<>>
    ELSE LET m == CHOOSE x \in S : \A y \in S : x <= y
         IN <<m>> \o Ascending(S \ {m})

\* A mutant of JobsUsingResource: the query has no ORDER BY, and its rows come
\* in one order or the other from call to call.
JobsUsingResourceUnordered(r) ==
    IF clock % 2 = 0 THEN Descending({j \in Jobs : <<j, r>> \in JobInputs})
    ELSE Ascending({j \in Jobs : <<j, r>> \in JobInputs})

\* A mutant of JobsUsingResource: the query returns the first job only.
JobsUsingResourceFirst(r) == SubSeq(Descending({j \in Jobs : <<j, r>> \in JobInputs}), 1, 1)

\* requestScheduleForJobsUsingResource, its query: SELECT DISTINCT job_id FROM
\* job_inputs WHERE resource_id = r ORDER BY job_id DESC.
JobsUsingResource(r) == Descending({j \in Jobs : <<j, r>> \in JobInputs})

\* The rows a statement of transaction t has to wait for: those written by
\* another transaction that is still open.
PinLocked(r, t) ==
    \E u \in Txs \ {t} : /\ txs[u].pc = "bump"
                         /\ txs[u].resource = r
                         /\ txs[u].op \in {"PinVersion", "UnpinVersion"}

DisabledLocked(r, md5, t) ==
    \E u \in Txs \ {t} : /\ txs[u].pc = "bump"
                         /\ txs[u].resource = r
                         /\ txs[u].op \in {"EnableVersion", "DisableVersion"}
                         /\ Md5(rcvs[txs[u].arg].version) = md5

ResourceLocked(r, t) ==
    \/ rowLock[r] # 0
    \/ \E u \in Txs \ {t} : /\ txs[u].pc = "bump"
                            /\ txs[u].resource = r
                            /\ txs[u].op = "SetResourceConfigScope"

JobLocked(j, t) == \E u \in Txs \ {t} : j \in txs[u].held

\* conn.Begin() can be called: a free slot, and a now() left to give.
CanBegin(t) ==
    /\ txs[t].pc = "idle"
    /\ \A u \in Txs : u < t => txs[u].pc # "idle"
    /\ clock < MaxOps

\* conn.Begin(), the first statement of PinVersion, UnpinVersion,
\* toggleVersion and SetResourceConfigScope: the transaction starts, which
\* fixes its now(); the call is op on resource r with argument arg.
Begin(t, op, r, arg) ==
    /\ CanBegin(t)
    /\ clock' = clock + 1
    /\ txs' = [txs EXCEPT ![t] = [IdleTx EXCEPT !.pc = "begun", !.op = op, !.resource = r,
                                                !.arg = arg, !.now = clock + 1]]
    /\ UNCHANGED <<pins, disabled, resourceScopes, scheduleRequested, rcvs, workerCaches,
                   handle, lastRet, versionsOut>>
    /\ UNCHANGED <<buildVars, watchVars, causalVars, setupVars>>

\* Transaction t belongs to this call and is at position pc.
At(t, pc, op, r, arg) ==
    /\ txs[t].pc = pc
    /\ txs[t].op = op
    /\ txs[t].resource = r
    /\ txs[t].arg = arg

\* The transaction after its write: it goes on to request a schedule for the
\* jobs using the resource.
Wrote(t) == [txs[t] EXCEPT !.pc = "bump", !.todo = JobsUsingResource(txs[t].resource)]

\* The operation of transaction t returns, and the deferred Rollback (or the
\* commit of a transaction that wrote nothing) ends the transaction.
Returns(t, ret, rows) ==
    /\ lastRet' = Ret(txs[t].op, txs[t].resource, txs[t].arg, ret, rows)
    /\ txs' = [txs EXCEPT ![t] = IdleTx]

\* A mutant of PinnedThroughConfig: the pin is never taken for a config pin.
PinnedThroughConfigNever(pin) == FALSE

\* SELECT EXISTS (SELECT 1 FROM resource_pins WHERE resource_id = $1 AND config).
PinnedThroughConfig(pin) == pin.exists /\ pin.config

\* PinVersion, its SELECT EXISTS: a resource pinned through its config makes
\* it return ErrPinnedThroughConfig.
PinVersion(t, r, rcvID) ==
    /\ At(t, "begun", "PinVersion", r, rcvID)
    /\ IF PinnedThroughConfig(pins[r])
       THEN Returns(t, "ErrPinnedThroughConfig", 0)
       ELSE /\ txs' = [txs EXCEPT ![t].pc = "checked"]
            /\ UNCHANGED lastRet
    /\ UNCHANGED <<pins, disabled, resourceScopes, scheduleRequested, rcvs, workerCaches,
                   handle, clock, versionsOut>>
    /\ UNCHANGED <<buildVars, watchVars, causalVars, setupVars>>

\* PinVersion, its upsert.  The version of a missing rcv row is NULL: the
\* statement then fails or reports that it wrote no row.
PinVersionUpsert(t, r, rcvID) ==
    /\ At(t, "checked", "PinVersion", r, rcvID)
    /\ ~PinLocked(r, t)
    /\ IF rcvID \in DOMAIN rcvs
       THEN /\ txs' = [txs EXCEPT ![t] = Wrote(t)]
            /\ UNCHANGED lastRet
       ELSE \E ret \in {"error", "notFound"} : Returns(t, ret, 0)
    /\ UNCHANGED <<pins, disabled, resourceScopes, scheduleRequested, rcvs, workerCaches,
                   handle, clock, versionsOut>>
    /\ UNCHANGED <<buildVars, watchVars, causalVars, setupVars>>

\* UnpinVersion, its DELETE.
UnpinVersion(t, r) ==
    /\ At(t, "begun", "UnpinVersion", r, 0)
    /\ IF pins[r].exists
       THEN /\ ~PinLocked(r, t)
            /\ txs' = [txs EXCEPT ![t] = Wrote(t)]
            /\ UNCHANGED lastRet
       ELSE Returns(t, "NonOneRowAffectedError", 0)
    /\ UNCHANGED <<pins, disabled, resourceScopes, scheduleRequested, rcvs, workerCaches,
                   handle, clock, versionsOut>>
    /\ UNCHANGED <<buildVars, watchVars, causalVars, setupVars>>

\* Rows the statement of toggleVersion affects.  (resource_id, version_md5) is
\* unique in resource_disabled_versions; -1 stands for the failure of an INSERT
\* that repeats a row.
ToggleRows(r, rcvID, enable) ==
    IF rcvID \notin DOMAIN rcvs THEN 0
    ELSE LET row == <<r, Md5(rcvs[rcvID].version)>>
         IN IF enable THEN (IF row \in disabled THEN 1 ELSE 0)
            ELSE (IF row \in disabled THEN -1 ELSE 1)

\* toggleVersion, its DELETE or INSERT.
toggleVersion(t, r, rcvID, enable) ==
    LET op == IF enable THEN "EnableVersion" ELSE "DisableVersion"
        rowsAffected == ToggleRows(r, rcvID, enable)
    IN /\ At(t, "begun", op, r, rcvID)
       /\ (rcvID \in DOMAIN rcvs /\ rowsAffected # 0)
             => ~DisabledLocked(r, Md5(rcvs[rcvID].version), t)
       /\ IF rowsAffected = -1 THEN Returns(t, "error", 0)
          ELSE IF rowsAffected # 1
          THEN Returns(t, "NonOneRowAffectedError", rowsAffected)
          ELSE /\ txs' = [txs EXCEPT ![t] = Wrote(t)]
               /\ UNCHANGED lastRet
       /\ UNCHANGED <<pins, disabled, resourceScopes, scheduleRequested, rcvs, workerCaches,
                      handle, clock, versionsOut>>
       /\ UNCHANGED <<buildVars, watchVars, causalVars, setupVars>>

EnableVersion(t, r, rcvID) == toggleVersion(t, r, rcvID, TRUE)

DisableVersion(t, r, rcvID) == toggleVersion(t, r, rcvID, FALSE)

\* A mutant of ScopeDiffers: the scope id is not compared.
ScopeDiffersByConfig(row, scope) ==
    \/ row.config = Null
    \/ row.scope = Null
    \/ row.config # scope.config

\* The WHERE clause of the UPDATE of setResourceConfigScopeInTransaction.
ScopeDiffers(row, scope) ==
    \/ row.config = Null
    \/ row.scope = Null
    \/ row.config # scope.config
    \/ row.scope # scope.id

\* SetResourceConfigScope, its UPDATE; when no row is written it commits at
\* once.
SetResourceConfigScope(t, r, scope) ==
    /\ At(t, "begun", "SetResourceConfigScope", r, scope)
    /\ IF ScopeDiffers(resourceScopes[r], scope)
       THEN /\ ~ResourceLocked(r, t)
            /\ txs' = [txs EXCEPT ![t] = Wrote(t)]
            /\ UNCHANGED lastRet
       ELSE Returns(t, "ok", 0)
    /\ UNCHANGED <<pins, disabled, resourceScopes, scheduleRequested, rcvs, workerCaches,
                   handle, clock, versionsOut>>
    /\ UNCHANGED <<buildVars, watchVars, causalVars, setupVars>>

\* Another writer of the job rows, which updates them in ascending order.
AscendingWriter(t) ==
    /\ CanBegin(t)
    /\ clock' = clock + 1
    /\ txs' = [txs EXCEPT ![t] =
                  [pc |-> "bump", op |-> "ascending", resource |-> 0, arg |-> 0,
                   now |-> clock + 1, todo |-> Ascending(Jobs), held |-> {}]]
    /\ UNCHANGED <<pins, disabled, resourceScopes, scheduleRequested, rcvs, workerCaches,
                   handle, lastRet, versionsOut>>
    /\ UNCHANGED <<buildVars, watchVars, causalVars, setupVars>>

\* requestScheduleForJobsUsingResource, one UPDATE of its loop: the job row is
\* locked until the transaction ends.
RequestSchedule(t) ==
    /\ txs[t].pc = "bump"
    /\ txs[t].todo # <<>>
    /\ ~JobLocked(Head(txs[t].todo), t)
    /\ txs' = [txs EXCEPT ![t].todo = Tail(@), ![t].held = @ \cup {Head(txs[t].todo)}]
    /\ UNCHANGED <<pins, disabled, resourceScopes, scheduleRequested, rcvs, workerCaches,
                   handle, clock, lastRet, versionsOut>>
    /\ UNCHANGED <<buildVars, watchVars, causalVars, setupVars>>

\* Transaction t waits for a job row that transaction u has locked.
WaitsFor(t, u) ==
    /\ t # u
    /\ txs[t].pc = "bump"
    /\ txs[t].todo # <<>>
    /\ Head(txs[t].todo) \in txs[u].held

Deadlocked(t, u) == WaitsFor(t, u) /\ WaitsFor(u, t)

\* The database ends a deadlock by failing the UPDATE of one of the two
\* transactions, which rolls back and returns the error.
DeadlockAbort(t) ==
    /\ \E u \in Txs : Deadlocked(t, u)
    /\ lastRet' = Ret(txs[t].op, txs[t].resource, txs[t].arg, "error", 0)
    /\ txs' = [txs EXCEPT ![t] = IdleTx]
    /\ UNCHANGED <<pins, disabled, resourceScopes, scheduleRequested, rcvs, workerCaches,
                   handle, clock, versionsOut>>
    /\ UNCHANGED <<buildVars, watchVars, causalVars, setupVars>>

\* A mutant of CommittedPins: the upsert leaves an existing row as it is.
CommittedPinsDoNothing(x) ==
    IF x.op = "PinVersion"
    THEN [pins EXCEPT ![x.resource] =
             IF @.exists THEN @ ELSE PinRow(rcvs[x.arg].version, "", FALSE)]
    ELSE IF x.op = "UnpinVersion" THEN [pins EXCEPT ![x.resource] = NoPin]
    ELSE pins

\* The rows of resource_pins once transaction x has committed.
CommittedPins(x) ==
    IF x.op = "PinVersion"
    THEN [pins EXCEPT ![x.resource] =
             IF @.exists THEN [@ EXCEPT !.version = rcvs[x.arg].version]
             ELSE PinRow(rcvs[x.arg].version, "", FALSE)]
    ELSE IF x.op = "UnpinVersion" THEN [pins EXCEPT ![x.resource] = NoPin]
    ELSE pins

\* A mutant of CommittedDisabled: the rows are written for every resource of
\* the scope of the resource.
CommittedDisabledInScope(x) ==
    LET sharing == {r \in Resources :
                       resourceScopes[r].scope = resourceScopes[x.resource].scope}
    IN IF x.op = "EnableVersion"
       THEN disabled \ {<<r, Md5(rcvs[x.arg].version)>> : r \in sharing}
       ELSE IF x.op = "DisableVersion"
       THEN disabled \cup {<<r, Md5(rcvs[x.arg].version)>> : r \in sharing}
       ELSE disabled

\* A mutant of CommittedDisabled: enabling a version leaves its row.
CommittedDisabledKeepsRow(x) ==
    IF x.op = "DisableVersion"
    THEN disabled \cup {<<x.resource, Md5(rcvs[x.arg].version)>>}
    ELSE disabled

\* DELETE FROM / INSERT INTO resource_disabled_versions, once transaction x
\* has committed.
CommittedDisabled(x) ==
    IF x.op = "EnableVersion"
    THEN disabled \ {<<x.resource, Md5(rcvs[x.arg].version)>>}
    ELSE IF x.op = "DisableVersion"
    THEN disabled \cup {<<x.resource, Md5(rcvs[x.arg].version)>>}
    ELSE disabled

CommittedScopes(x) ==
    IF x.op = "SetResourceConfigScope"
    THEN [resourceScopes EXCEPT ![x.resource].config = x.arg.config,
                                ![x.resource].scope = x.arg.id]
    ELSE resourceScopes

\* schedule_requested = now() in the job rows the transaction has updated.
Bumped(x) ==
    [j \in Jobs |-> IF j \in x.held /\ x.op # "ascending" THEN x.now
                    ELSE scheduleRequested[j]]

\* tx.Commit() after requestScheduleForJobsUsingResource has returned: the
\* write and the bumps become visible together, and the operation returns.
Commit(t) ==
    /\ txs[t].pc = "bump"
    /\ txs[t].todo = <<>>
    /\ pins' = CommittedPins(txs[t])
    /\ disabled' = CommittedDisabled(txs[t])
    /\ resourceScopes' = CommittedScopes(txs[t])
    /\ scheduleRequested' = Bumped(txs[t])
    /\ lastRet' = Ret(txs[t].op, txs[t].resource, txs[t].arg, "ok", 1)
    /\ txs' = [txs EXCEPT ![t] = IdleTx]
    /\ UNCHANGED <<rcvs, workerCaches, handle, clock, versionsOut>>
    /\ UNCHANGED <<buildVars, watchVars, causalVars, setupVars>>

\* SetPinComment: one UPDATE of resource_pins outside any transaction.
SetPinComment(r, comment) ==
    /\ pins[r].exists => ~PinLocked(r, 0)
    /\ pins' = [pins EXCEPT ![r] = IF @.exists THEN [@ EXCEPT !.comment_text = comment] ELSE @]
    /\ lastRet' = Ret("SetPinComment", r, comment, "ok", IF pins[r].exists THEN 1 ELSE 0)
    /\ UNCHANGED <<disabled, resourceScopes, scheduleRequested, rcvs, workerCaches, handle,
                   txs, clock, versionsOut>>
    /\ UNCHANGED <<buildVars, watchVars, causalVars, setupVars>>

\* The rows the UPDATE of UpdateMetadata matches: those of the scope the
\* resource object holds whose version_md5 is md5(version).
MetadataRows(h, version) ==
    {id \in DOMAIN rcvs : /\ rcvs[id].scope = h.resourceConfigScopeID
                          /\ Md5(rcvs[id].version) = Md5(version)}

\* UpdateMetadata: one UPDATE outside any transaction; Exec never returns
\* sql.ErrNoRows, so the call returns true whenever the statement ran.
UpdateMetadata(r, version, metadata) ==
    /\ rcvs' = [id \in DOMAIN rcvs |->
                   IF id \in MetadataRows(handle[r], version)
                   THEN [rcvs[id] EXCEPT !.metadata = metadata] ELSE rcvs[id]]
    /\ lastRet' = Ret("UpdateMetadata", r, version, "ok",
                      Cardinality(MetadataRows(handle[r], version)))
    /\ UNCHANGED <<pins, disabled, resourceScopes, scheduleRequested, workerCaches, handle,
                   txs, clock, versionsOut>>
    /\ UNCHANGED <<buildVars, watchVars, causalVars, setupVars>>

\* The resource_caches ids ClearResourceCache selects.
CachesToClear(h, version) ==
    {c \in DOMAIN ResourceCaches :
        /\ ResourceCaches[c].config = h.resourceConfigID
        /\ version # NilVersion => ResourceCaches[c].version_md5 = Md5(version)}

\* ClearResourceCache: its DELETE and its commit.
ClearResourceCache(r, version) ==
    /\ workerCaches' = workerCaches \ CachesToClear(handle[r], version)
    /\ lastRet' = Ret("ClearResourceCache", r, version, "ok",
                      Cardinality(workerCaches \cap CachesToClear(handle[r], version)))
    /\ UNCHANGED <<pins, disabled, resourceScopes, scheduleRequested, rcvs, handle, txs,
                   clock, versionsOut>>
    /\ UNCHANGED <<buildVars, watchVars, causalVars, setupVars>>

\* The rows another writer of the resources table may leave: any config and
\* scope or neither, any build or none, active or not.
ResourceRows ==
    {[ResourceRow(scope.config, scope.id) EXCEPT !.build = build, !.active = active] :
        scope \in Scopes \cup {[id |-> Null, config |-> Null]},
        build \in {Null, 1}, active \in BOOLEAN}

\* Another component writes the resources row of r: saving the pipeline
\* resets or deactivates it, a check links its build, and the database sets
\* the columns to NULL when the row they reference is deleted.
WriteResourceRow(r, row) ==
    /\ row # resourceScopes[r]
    /\ resourceScopes' = [resourceScopes EXCEPT ![r] = row]
    /\ UNCHANGED <<pins, disabled, scheduleRequested, rcvs, workerCaches, handle, txs, clock,
                   lastRet, versionsOut>>
    /\ UNCHANGED <<buildVars, watchVars, causalVars, setupVars>>

\* Reload has a row to scan: resourcesQuery selects active rows only, and
\* without one Scan returns sql.ErrNoRows and Reload (false, nil).
ReloadFound(r) == resourceScopes[r].active

\* Reload: the resource object scans its committed row, if it has one.
Reload(r) ==
    /\ handle' = [handle EXCEPT ![r] =
                      IF ReloadFound(r) THEN ScanResource(@, pins[r], resourceScopes[r])
                      ELSE @]
    /\ UNCHANGED <<pins, disabled, resourceScopes, scheduleRequested, rcvs, workerCaches, txs,
                   clock, lastRet, versionsOut>>
    /\ UNCHANGED <<buildVars, watchVars, causalVars, setupVars>>

\* A db.Page: From and To are pointers, <<>> when nil and <<id>> otherwise.
Page(from, to, limit) == [From |-> from, To |-> to, Limit |-> limit]

\* jsonb containment, version @> filter.
Contains(version, filter) == filter \subseteq version

\* The rows of the scope the resources row of r points to.
ScopeRows(r) == {id \in DOMAIN rcvs : rcvs[id].scope = resourceScopes[r].scope}

\* SELECT check_order FROM resource_config_versions WHERE id = ...: the set
\* of the values found, empty when the id is unknown.
CheckOrderOf(id) == {rcvs[i].check_order : i \in {j \in DOMAIN rcvs : j = id}}

RECURSIVE OrderDesc(_)
\* ORDER BY check_order DESC.
OrderDesc(ids) ==
    IF ids = {} THEN <<>>
    ELSE LET m == CHOOSE x \in ids : \A y \in ids : rcvs[y].check_order <= rcvs[x].check_order
         IN <<m>> \o OrderDesc(ids \ {m})

RECURSIVE OrderAsc(_)
\* ORDER BY check_order ASC.
OrderAsc(ids) ==
    IF ids = {} THEN <<>>
    ELSE LET m == CHOOSE x \in ids : \A y \in ids : rcvs[x].check_order <= rcvs[y].check_order
         IN <<m>> \o OrderAsc(ids \ {m})

\* LIMIT n.
LimitTo(seq, n) == SubSeq(seq, 1, IF Len(seq) < n THEN Len(seq) ELSE n)

SeqRange(seq) == {seq[i] : i \in 1..Len(seq)}

\* A mutant of VersionsQuery: the From page is cut from the newest rows.
VersionsQueryFromNewest(r, page, filter) ==
    LET matching == {id \in ScopeRows(r) : Contains(rcvs[id].version, filter)}
    IN IF page.From # <<>>
       THEN LET sub == {id \in matching :
                           \E b \in CheckOrderOf(page.From[1]) : rcvs[id].check_order >= b}
            IN LimitTo(OrderDesc(sub), page.Limit)
       ELSE IF page.To # <<>>
       THEN LET sub == {id \in matching :
                           \E b \in CheckOrderOf(page.To[1]) : rcvs[id].check_order <= b}
            IN LimitTo(OrderDesc(sub), page.Limit)
       ELSE LimitTo(OrderDesc(matching), page.Limit)

\* A mutant of VersionsQuery: the bounds From and To are exclusive.
VersionsQueryExclusive(r, page, filter) ==
    LET matching == {id \in ScopeRows(r) : Contains(rcvs[id].version, filter)}
    IN IF page.From # <<>>
       THEN LET sub == {id \in matching :
                           \E b \in CheckOrderOf(page.From[1]) : rcvs[id].check_order > b}
            IN OrderDesc(SeqRange(LimitTo(OrderAsc(sub), page.Limit)))
       ELSE IF page.To # <<>>
       THEN LET sub == {id \in matching :
                           \E b \in CheckOrderOf(page.To[1]) : rcvs[id].check_order < b}
            IN LimitTo(OrderDesc(sub), page.Limit)
       ELSE LimitTo(OrderDesc(matching), page.Limit)

\* The ids the query of Versions selects, in the order it returns them.
VersionsQuery(r, page, filter) ==
    LET matching == {id \in ScopeRows(r) : Contains(rcvs[id].version, filter)}
    IN IF page.From # <<>>
       THEN LET sub == {id \in matching :
                           \E b \in CheckOrderOf(page.From[1]) : rcvs[id].check_order >= b}
            IN OrderDesc(SeqRange(LimitTo(OrderAsc(sub), page.Limit)))
       ELSE IF page.To # <<>>
       THEN LET sub == {id \in matching :
                           \E b \in CheckOrderOf(page.To[1]) : rcvs[id].check_order <= b}
            IN LimitTo(OrderDesc(sub), page.Limit)
       ELSE LimitTo(OrderDesc(matching), page.Limit)

\* An atc.ResourceVersion; Enabled is the absence of a row of
\* resource_disabled_versions for this resource and version_md5.
ResourceVersion(r, id) ==
    [ID |-> id, Version |-> rcvs[id].version, Metadata |-> rcvs[id].metadata,
     Enabled |-> <<r, Md5(rcvs[id].version)>> \notin disabled]

\* Pagination.Older: the nearest row of the scope below the oldest row returned.
OlderPage(r, ids, limit) ==
    LET older == {id \in ScopeRows(r) :
                     rcvs[id].check_order < rcvs[ids[Len(ids)]].check_order}
    IN IF older = {} THEN <<>> ELSE <<Page(<<>>, <<OrderDesc(older)[1]>>, limit)>>

\* Pagination.Newer: the nearest row of the scope above the newest row returned.
NewerPage(r, ids, limit) ==
    LET newer == {id \in ScopeRows(r) : rcvs[id].check_order > rcvs[ids[1]].check_order}
    IN IF newer = {} THEN <<>> ELSE <<Page(<<OrderAsc(newer)[1]>>, <<>>, limit)>>

\* What Versions returns when no statement fails and nothing is committed
\* between its statements: rows, pagination, found, error.
Versions(r, page, filter) ==
    LET ids == VersionsQuery(r, page, filter)
    IN IF Len(ids) = 0
       THEN [rvs |-> <<>>, Older |-> <<>>, Newer |-> <<>>, found |-> TRUE, err |-> "nil"]
       ELSE [rvs |-> [i \in 1..Len(ids) |-> ResourceVersion(r, ids[i])],
             Older |-> OlderPage(r, ids, page.Limit),
             Newer |-> NewerPage(r, ids, page.Limit),
             found |-> TRUE,
             err |-> "nil"]

\* The steps of Versions that can fail: conn.Begin, the page query, the Scan
\* of a row, the two cursor queries and tx.Commit.
Failures == {"Begin", "Query", "Scan", "Older", "Newer", "Commit"}

\* Versions gets as far as the step: Begin and the page query always run, the
\* later steps only when the page has a row.
Reaches(r, page, filter, step) ==
    step \in {"Begin", "Query"} \/ Len(VersionsQuery(r, page, filter)) > 0

\* What Versions returns when the step fails, if it gets there: nil,
\* Pagination{}, false and the error, but for tx.Commit, whose error is
\* dropped.
VersionsFailing(r, page, filter, step) ==
    IF ~Reaches(r, page, filter, step) THEN Versions(r, page, filter)
    ELSE [rvs |-> <<>>, Older |-> <<>>, Newer |-> <<>>, found |-> FALSE,
          err |-> IF step = "Commit" THEN "nil" ELSE "error"]

\* No call of Versions: call is the call made, tx the locals of the call
\* while its transaction is open, out what it has returned.
NoOut == [call |-> <<>>, tx |-> <<>>, out |-> <<>>]

\* Versions, its transaction up to the page query and the loop over its
\* rows: the rows are read with their Enabled flag, and a page without rows
\* is returned at once.  The transaction is READ COMMITTED: each of its
\* statements reads what is committed when it runs.
VersionsCall(r, page, filter) ==
    /\ versionsOut = NoOut
    /\ LET ids == VersionsQuery(r, page, filter)
       IN versionsOut' =
              IF Len(ids) = 0
              THEN [call |-> <<r, page, filter>>, tx |-> <<>>,
                    out |-> <<Versions(r, page, filter)>>]
              ELSE [call |-> <<r, page, filter>>,
                    tx |-> <<[pc |-> "older", ids |-> ids,
                             rvs |-> [i \in 1..Len(ids) |-> ResourceVersion(r, ids[i])],
                             Older |-> <<>>]>>,
                    out |-> <<>>]
    /\ UNCHANGED <<pins, disabled, resourceScopes, scheduleRequested, rcvs, workerCaches,
                   handle, txs, clock, lastRet>>
    /\ UNCHANGED <<buildVars, watchVars, causalVars, setupVars>>

\* Versions, the query for the row below the oldest row of the page.
VersionsOlder ==
    /\ versionsOut.tx # <<>>
    /\ versionsOut.tx[1].pc = "older"
    /\ LET tx == versionsOut.tx[1]
           r == versionsOut.call[1]
           page == versionsOut.call[2]
       IN versionsOut' =
              [versionsOut EXCEPT !.tx = <<[tx EXCEPT !.pc = "newer",
                                                      !.Older = OlderPage(r, tx.ids,
                                                                          page.Limit)]>>]
    /\ UNCHANGED <<pins, disabled, resourceScopes, scheduleRequested, rcvs, workerCaches,
                   handle, txs, clock, lastRet>>
    /\ UNCHANGED <<buildVars, watchVars, causalVars, setupVars>>

\* Versions, the query for the row above the newest row of the page, the
\* commit and the return.
VersionsNewer ==
    /\ versionsOut.tx # <<>>
    /\ versionsOut.tx[1].pc = "newer"
    /\ LET tx == versionsOut.tx[1]
           r == versionsOut.call[1]
           page == versionsOut.call[2]
       IN versionsOut' =
              [versionsOut EXCEPT
                  !.tx = <<>>,
                  !.out = <<[rvs |-> tx.rvs, Older |-> tx.Older,
                             Newer |-> NewerPage(r, tx.ids, page.Limit),
                             found |-> TRUE, err |-> "nil"]>>]
    /\ UNCHANGED <<pins, disabled, resourceScopes, scheduleRequested, rcvs, workerCaches,
                   handle, txs, clock, lastRet>>
    /\ UNCHANGED <<buildVars, watchVars, causalVars, setupVars>>

\* A call of Versions during which the step fails: what it returns depends
\* on the page query alone.
VersionsFails(r, page, filter, step) ==
    /\ versionsOut = NoOut
    /\ versionsOut' = [call |-> <<r, page, filter, step>>, tx |-> <<>>,
                       out |-> <<VersionsFailing(r, page, filter, step)>>]
    /\ UNCHANGED <<pins, disabled, resourceScopes, scheduleRequested, rcvs, workerCaches,
                   handle, txs, clock, lastRet>>
    /\ UNCHANGED <<buildVars, watchVars, causalVars, setupVars>>

-----------------------------------------------------------------------------
(* resource.Causality: the recursive queries that collect the builds        *)
(* downstream and upstream of a version, and getCausalityResourceVersions,  *)
(* which links builds and versions into the graph hanging off root.         *)

BuildIDs == 1..NumBuilds

\* The ledger Causality is applied to: two versions of scope 1 and one of
\* scope 2.
CausalityLedger ==
    <<RCV(1, Version("a"), 1), RCV(1, Version("b"), 2), RCV(2, Version("a"), 1)>>

\* The rows the input and output tables are filled from.
EdgeRows ==
    {<<b, 1, Md5(Version("a"))>> : b \in BuildIDs}
        \cup {<<b, 1, Md5(Version("b"))>> : b \in BuildIDs}
        \cup {<<b, 2, Md5(Version("a"))>> : b \in BuildIDs}

\* The pointer graph: each edge is a pair of nodes.  A version node is
\* <<"root", id>> for the variable root and <<m, id>> for a struct allocated
\* by the call of getCausalityResourceVersions for walk m; a build node is
\* <<m, id>> for the struct that call has put in its builds map.
NoGraph == [InputTo |-> {}, Outputs |-> {}, Inputs |-> {}, OutputOf |-> {}]

IdleWalk ==
    [pc |-> "idle", resource |-> 0, root |-> 0, md5 |-> <<>>, work |-> {}, ids |-> {},
     graph |-> NoGraph, found |-> FALSE, err |-> "none"]

\* No causality data, no call.
InitCausality ==
    /\ buildPipes = {}
    /\ buildInputs = {}
    /\ buildOutputs = {}
    /\ walk = IdleWalk

\* The non-recursive terms: the builds with the root version as an input
\* (downstream), as an output (upstream).
DownstreamBase(r, md5) == {e[1] : e \in {x \in buildInputs : x[2] = r /\ x[3] = md5}}

UpstreamBase(r, md5) == {e[1] : e \in {x \in buildOutputs : x[2] = r /\ x[3] = md5}}

\* The recursive term of downStreamCausalityQuery applied to the working
\* table: to_build_id of the pipes leaving a build of the table that has an
\* input of a resource other than r.
DownstreamStep(work, r) ==
    {bp[2] : bp \in {x \in buildPipes :
                        /\ x[1] \in work
                        /\ \E i \in buildInputs : i[1] = x[1] /\ i[2] # r}}

\* The recursive term of upStreamCausalityQuery: from_build_id of the pipes
\* entering a build of the table that has an input of a resource other than r.
UpstreamStep(work, r) ==
    {bp[1] : bp \in {x \in buildPipes :
                        /\ x[2] \in work
                        /\ \E i \in buildInputs : i[1] = x[2] /\ i[2] # r}}

\* The rows <<rcv.id, build_id>> of the join of an edge table with resources
\* and resource_config_versions, for the builds in ids.
JoinedRows(edges, ids) ==
    {<<q[2], q[1][1]>> :
        q \in {x \in edges \X DOMAIN rcvs :
                  /\ x[1][1] \in ids
                  /\ Md5(rcvs[x[2]].version) = x[1][3]
                  /\ rcvs[x[2]].scope = resourceScopes[x[1][2]].scope}}

\* resourceVersions[rcvID] in the call for walk m: root, with which the map
\* is seeded, or a struct of that call.
VersionNode(m, id, root) == IF id = root THEN <<"root", id>> ELSE <<m, id>>

\* getCausalityResourceVersions for walk m ("down" or "up"), one of its two
\* passes: the graph with the edges the rows of the inputs query add through
\* updateInput, or those of the outputs query through updateOutput.
GetCausalityResourceVersions(graph, m, pass, ids, root) ==
    LET edges == IF pass = "inputs" THEN buildInputs ELSE buildOutputs
        found == {<<VersionNode(m, row[1], root), <<m, row[2]>>>> :
                     row \in JoinedRows(edges, ids)}
        back == {<<e[2], e[1]>> : e \in found}
    IN IF m = "down"
       THEN IF pass = "inputs" THEN [graph EXCEPT !.InputTo = @ \cup found]
            ELSE [graph EXCEPT !.Outputs = @ \cup back]
       ELSE IF pass = "inputs" THEN [graph EXCEPT !.Inputs = @ \cup back]
            ELSE [graph EXCEPT !.OutputOf = @ \cup found]

\* Causality(rcvID), its first statement: the version is looked up by its
\* id.  (The second sq.Eq, with the scope the resource object holds, is
\* passed as an argument of Where and is no part of the predicate.)  When
\* Scan finds no row (sql.ErrNoRows) the call returns (root, false, nil).
CausalityCall(r, rcvID) ==
    /\ walk.pc = "idle"
    /\ IF rcvID \in DOMAIN rcvs
       THEN walk' = [IdleWalk EXCEPT !.pc = "downQuery", !.resource = r, !.root = rcvID,
                                     !.md5 = Md5(rcvs[rcvID].version)]
       ELSE walk' = [IdleWalk EXCEPT !.pc = "done", !.resource = r, !.root = rcvID,
                                     !.err = "nil"]
    /\ UNCHANGED <<buildPipes, buildInputs, buildOutputs>>
    /\ UNCHANGED <<buildVars, watchVars, storeVars, setupVars>>

\* getCausalityBuilds, one evaluation of a term of WITH RECURSIVE ... UNION
\* ALL: first the non-recursive term, then the recursive term on the working
\* table, whose rows are added to the result and become the working table.
\* The result is used only in IN (...) lists, so it is kept as the set of
\* its ids.
WalkStep ==
    /\ \/ /\ walk.pc = "downQuery"
          /\ LET base == DownstreamBase(walk.resource, walk.md5)
             IN walk' = [walk EXCEPT !.pc = "down", !.work = base, !.ids = base]
       \/ /\ walk.pc = "upQuery"
          /\ LET base == UpstreamBase(walk.resource, walk.md5)
             IN walk' = [walk EXCEPT !.pc = "up", !.work = base, !.ids = base]
       \/ /\ walk.pc \in {"down", "up"}
          /\ walk.work # {}
          /\ LET next == IF walk.pc = "down"
                         THEN DownstreamStep(walk.work, walk.resource)
                         ELSE UpstreamStep(walk.work, walk.resource)
             IN walk' = [walk EXCEPT !.work = next, !.ids = @ \cup next]
    /\ UNCHANGED <<buildPipes, buildInputs, buildOutputs>>
    /\ UNCHANGED <<buildVars, watchVars, storeVars, setupVars>>

\* The downstream query ends on an empty working table; the downstream call
\* of getCausalityResourceVersions selects the builds and seeds its map with
\* root.
DownstreamDone ==
    /\ walk.pc = "down"
    /\ walk.work = {}
    /\ walk' = [walk EXCEPT !.pc = "downInputs"]
    /\ UNCHANGED <<buildPipes, buildInputs, buildOutputs>>
    /\ UNCHANGED <<buildVars, watchVars, storeVars, setupVars>>

\* The upstream query ends; the upstream call of getCausalityResourceVersions
\* selects the builds and seeds its map with root.
UpstreamDone ==
    /\ walk.pc = "up"
    /\ walk.work = {}
    /\ walk' = [walk EXCEPT !.pc = "upInputs"]
    /\ UNCHANGED <<buildPipes, buildInputs, buildOutputs>>
    /\ UNCHANGED <<buildVars, watchVars, storeVars, setupVars>>

\* getCausalityResourceVersions, its inputs query or its outputs query with
\* the loop over the rows: each is a statement of its own on r.conn, outside
\* any transaction, and reads what is committed when it runs.  After the
\* outputs of the downstream call Causality goes on to the upstream query;
\* after those of the upstream call it returns (root, true, nil).
ResourceVersionsPass ==
    /\ walk.pc \in {"downInputs", "downOutputs", "upInputs", "upOutputs"}
    /\ LET m == IF walk.pc \in {"downInputs", "downOutputs"} THEN "down" ELSE "up"
           pass == IF walk.pc \in {"downInputs", "upInputs"} THEN "inputs" ELSE "outputs"
           graph == GetCausalityResourceVersions(walk.graph, m, pass, walk.ids, walk.root)
       IN walk' = IF walk.pc = "downInputs"
                  THEN [walk EXCEPT !.pc = "downOutputs", !.graph = graph]
                  ELSE IF walk.pc = "downOutputs"
                  THEN [walk EXCEPT !.pc = "upQuery", !.graph = graph]
                  ELSE IF walk.pc = "upInputs"
                  THEN [walk EXCEPT !.pc = "upOutputs", !.graph = graph]
                  ELSE [walk EXCEPT !.pc = "done", !.graph = graph, !.found = TRUE,
                                    !.err = "nil"]
    /\ UNCHANGED <<buildPipes, buildInputs, buildOutputs>>
    /\ UNCHANGED <<buildVars, watchVars, storeVars, setupVars>>

-----------------------------------------------------------------------------
(* ListAllJobsWatcher.setupTriggers. *)

Nodes == 1..NumNodes

\* What setupTriggers creates, in the order of its statements: the notify
\* function, then the trigger of each table of listAllJobsWatchTables.
TriggerStatements == <<"function", "jobs", "pipelines", "teams">>

\* A call of setupTriggers: its position, what its open transaction has
\* created, whether it has begun a transaction, and what it has returned.
NoSetup == [pc |-> "none", staged |-> {}, began |-> FALSE, ret |-> "none"]

InitSetup ==
    /\ lockHolder = 0
    /\ installed = {}
    /\ setups = [n \in Nodes |-> NoSetup]

\* A mutant of Release: the lock is kept.
ReleaseNever(holder, n) == holder

\* defer l.Release(): the lock is free once node n has released it.
Release(holder, n) == IF holder = n THEN 0 ELSE holder

\* setupTriggers up to the test of acquired: Acquire fails, or the lock is
\* held by another node, or node n now holds it.
SetupAcquire(n, err) ==
    /\ setups[n].pc = "none"
    /\ IF err
       THEN /\ setups' = [setups EXCEPT ![n] = [@ EXCEPT !.pc = "done", !.ret = "error"]]
            /\ UNCHANGED lockHolder
       ELSE IF lockHolder # 0
       THEN /\ setups' = [setups EXCEPT ![n] = [@ EXCEPT !.pc = "done", !.ret = "nil"]]
            /\ UNCHANGED lockHolder
       ELSE /\ setups' = [setups EXCEPT ![n] = [@ EXCEPT !.pc = "begin"]]
            /\ lockHolder' = n
    /\ UNCHANGED installed
    /\ UNCHANGED <<buildVars, watchVars, storeVars, causalVars>>

\* w.conn.Begin().
SetupBegin(n, err) ==
    /\ setups[n].pc = "begin"
    /\ IF err
       THEN /\ setups' = [setups EXCEPT ![n] = [@ EXCEPT !.pc = "done", !.ret = "error"]]
            /\ lockHolder' = Release(lockHolder, n)
       ELSE /\ setups' = [setups EXCEPT ![n] = [@ EXCEPT !.pc = "tx", !.began = TRUE]]
            /\ UNCHANGED lockHolder
    /\ UNCHANGED installed
    /\ UNCHANGED <<buildVars, watchVars, storeVars, causalVars>>

\* The next statement of the transaction: tx.Exec(createNotifyTriggerFunction),
\* then createWatchEventsTrigger for each table.  An error returns through
\* the deferred tx.Rollback() and l.Release().
SetupExec(n, err) ==
    /\ setups[n].pc = "tx"
    /\ LET stmt == TriggerStatements[Cardinality(setups[n].staged) + 1]
       IN IF err
          THEN /\ setups' = [setups EXCEPT ![n] = [@ EXCEPT !.pc = "done", !.ret = "error",
                                                            !.staged = {}]]
               /\ lockHolder' = Release(lockHolder, n)
          ELSE /\ setups' = [setups EXCEPT ![n] =
                                [@ EXCEPT !.staged = @ \cup {stmt},
                                          !.pc = IF Cardinality(setups[n].staged) + 1
                                                      = Len(TriggerStatements)
                                                 THEN "commit" ELSE "tx"]]
               /\ UNCHANGED lockHolder
    /\ UNCHANGED installed
    /\ UNCHANGED <<buildVars, watchVars, storeVars, causalVars>>

\* tx.Commit(): what the transaction has created becomes visible at once, or
\* nothing of it does; then the deferred l.Release().
SetupCommit(n, err) ==
    /\ setups[n].pc = "commit"
    /\ IF err
       THEN /\ setups' = [setups EXCEPT ![n] = [@ EXCEPT !.pc = "done", !.ret = "error",
                                                         !.staged = {}]]
            /\ UNCHANGED installed
       ELSE /\ setups' = [setups EXCEPT ![n] = [@ EXCEPT !.pc = "done", !.ret = "nil",
                                                         !.staged = {}]]
            /\ installed' = installed \cup setups[n].staged
    /\ lockHolder' = Release(lockHolder, n)
    /\ UNCHANGED <<buildVars, watchVars, storeVars, causalVars>>

\* The node makes another ListAllJobsWatcher (it has restarted).
SetupAgain(n) ==
    /\ setups[n].pc = "done"
    /\ setups' = [setups EXCEPT ![n] = NoSetup]
    /\ UNCHANGED <<lockHolder, installed>>
    /\ UNCHANGED <<buildVars, watchVars, storeVars, causalVars>>

\* The store after the pipeline has been saved: resource 1 is pinned through
\* its config and has a scope, the other resources have neither; every
\* resource object has been loaded.
InitStore ==
    /\ pins = [r \in Resources |->
                  IF r = 1 THEN PinRow(Version("a"), "", TRUE) ELSE NoPin]
    /\ disabled = {}
    /\ resourceScopes = [r \in Resources |->
                            IF r = 1 THEN ResourceRow(1, 1) ELSE ResourceRow(Null, Null)]
    /\ scheduleRequested = [j \in Jobs |-> 0]
    /\ rcvs = Ledger
    /\ workerCaches = DOMAIN ResourceCaches
    /\ handle = [r \in Resources |->
                    ScanResource(ZeroResource, pins[r], resourceScopes[r])]
    /\ txs = [t \in Txs |-> IdleTx]
    /\ clock = 0
    /\ lastRet = NoRet
    /\ versionsOut = NoOut

\* The ledgers Versions is applied to: up to MaxRows rows in two scopes;
\* check_order and version_md5 are unique within a scope, and ids are
\* assigned in any order.
Ledgers ==
    LET rows == {RCV(sc, Version(ref), co) :
                    sc \in 1..2, ref \in {"a", "b", "c"}, co \in 1..MaxRows}
        seqs == UNION {[1..n -> rows] : n \in 0..MaxRows}
    IN {l \in seqs : \A i, j \in DOMAIN l :
           (i # j /\ l[i].scope = l[j].scope)
               => (l[i].check_order # l[j].check_order /\ l[i].version # l[j].version)}

\* Inputs of Versions: resource 1 lists scope 1, some version of which is
\* disabled.
InitVersions ==
    /\ pins = [r \in Resources |-> NoPin]
    /\ disabled \in {{}, {<<1, Md5(Version("a"))>>}}
    /\ resourceScopes = [r \in Resources |->
                            IF r = 1 THEN ResourceRow(1, 1) ELSE ResourceRow(Null, Null)]
    /\ scheduleRequested = [j \in Jobs |-> 0]
    /\ rcvs \in Ledgers
    /\ workerCaches = {}
    /\ handle = [r \in Resources |->
                    ScanResource(ZeroResource, pins[r], resourceScopes[r])]
    /\ txs = [t \in Txs |-> IdleTx]
    /\ clock = 0
    /\ lastRet = NoRet
    /\ versionsOut = NoOut

\* The store Causality is applied to: each resource has a scope, and builds,
\* pipes, inputs and outputs are any rows over BuildIDs.
InitTracing ==
    /\ InitBuild
    /\ InitWatch
    /\ InitSetup
    /\ pins = [r \in Resources |-> NoPin]
    /\ disabled = {}
    /\ resourceScopes = [r \in Resources |-> ResourceRow(1, r)]
    /\ scheduleRequested = [j \in Jobs |-> 0]
    /\ rcvs = CausalityLedger
    /\ workerCaches = {}
    /\ handle = [r \in Resources |->
                    ScanResource(ZeroResource, pins[r], resourceScopes[r])]
    /\ txs = [t \in Txs |-> IdleTx]
    /\ clock = 0
    /\ lastRet = NoRet
    /\ versionsOut = NoOut
    /\ buildPipes \in SUBSET {<<b, c>> \in BuildIDs \X BuildIDs : b # c}
    /\ buildInputs \in SUBSET EdgeRows
    /\ buildOutputs \in SUBSET EdgeRows
    /\ walk = IdleWalk

Init == InitBuild /\ InitWatch /\ InitStore /\ InitCausality /\ InitSetup

-----------------------------------------------------------------------------
(* Specifications. *)

NextBuild ==
    \/ \E c \in Calls, r \in Resources, m \in BOOLEAN : CreateBuildCheck(c, r, m)
    \/ \E c \in Calls : CreateBuildInsert(c)
    \/ \E c \in Calls : CreateBuildLink(c)
    \/ \E c \in Calls : CreateBuildCommit(c)
    \/ \E c \in Calls : CreateBuildTxError(c)
    \/ \E c \in Calls : CreateBuildNotify(c)
    \/ \E c \in Calls : CreateBuildReload(c)
    \/ \E b \in DOMAIN builds : CompleteBuild(b)

SpecBuild == Init /\ [][NextBuild]_vars

NextWatch ==
    \/ DrainTerminate
    \/ \E notif \in Notifications : \E fetch \in FetchJobs(notif) :
           DrainProcess(notif, fetch)
    \/ PublishBegin
    \/ PublishSend
    \/ \E s \in Subs : WatchListAllJobs(s)
    \/ \E s \in Subs : Subscribe(s)
    \/ \E s \in Subs : WatchCtxDone(s)
    \/ \E s \in Subs : WatchChannelClosed(s)
    \/ \E s \in Subs : WatchAppend(s)
    \/ \E s \in Subs : Unsubscribe(s)
    \/ \E s \in Subs : SendEventsSelect(s)
    \/ \E s \in Subs : SendEventsCtxDone(s)
    \/ \E s \in Subs : SendEventsSwap(s)
    \/ \E s \in Subs : SendEventsDeliver(s)
    \/ \E s \in Subs : Cancel(s)

SpecWatch == Init /\ [][NextWatch]_vars

\* Every goroutine that can take a step is scheduled, and the consumer keeps
\* reading its channel.  Nothing is assumed of the arrival of notifications, of
\* calls of WatchListAllJobs or of cancellations.
FairWatch ==
    /\ WF_vars(PublishBegin)
    /\ WF_vars(PublishSend)
    /\ \A s \in Subs :
          /\ WF_vars(Subscribe(s))
          /\ WF_vars(WatchCtxDone(s))
          /\ WF_vars(WatchChannelClosed(s))
          /\ WF_vars(WatchAppend(s))
          /\ WF_vars(Unsubscribe(s))
          /\ WF_vars(SendEventsSelect(s))
          /\ WF_vars(SendEventsCtxDone(s))
          /\ WF_vars(SendEventsSwap(s))
          /\ WF_vars(SendEventsDeliver(s))

FairSpecWatch == Init /\ [][NextWatch]_vars /\ FairWatch

Comments == {"hold"}

\* The operations on pins, disabled versions and scope.
NextStore ==
    \/ \E t \in Txs, r \in Resources, id \in RCVIDs :
           \E op \in {"PinVersion", "EnableVersion", "DisableVersion"} : Begin(t, op, r, id)
    \/ \E t \in Txs, r \in Resources : Begin(t, "UnpinVersion", r, 0)
    \/ \E t \in Txs, r \in Resources, scope \in Scopes :
           Begin(t, "SetResourceConfigScope", r, scope)
    \/ \E t \in Txs, r \in Resources, id \in RCVIDs : PinVersion(t, r, id)
    \/ \E t \in Txs, r \in Resources, id \in RCVIDs : PinVersionUpsert(t, r, id)
    \/ \E t \in Txs, r \in Resources : UnpinVersion(t, r)
    \/ \E t \in Txs, r \in Resources, id \in RCVIDs : EnableVersion(t, r, id)
    \/ \E t \in Txs, r \in Resources, id \in RCVIDs : DisableVersion(t, r, id)
    \/ \E t \in Txs, r \in Resources, scope \in Scopes : SetResourceConfigScope(t, r, scope)
    \/ \E t \in Txs : RequestSchedule(t)
    \/ \E t \in Txs : Commit(t)
    \/ \E r \in Resources, comment \in Comments : SetPinComment(r, comment)

SpecStore == Init /\ [][NextStore]_vars

\* The operations on pins next to Reload.
NextPins ==
    \/ \E t \in Txs, r \in Resources, id \in RCVIDs : Begin(t, "PinVersion", r, id)
    \/ \E t \in Txs, r \in Resources : Begin(t, "UnpinVersion", r, 0)
    \/ \E t \in Txs, r \in Resources, id \in RCVIDs : PinVersion(t, r, id)
    \/ \E t \in Txs, r \in Resources, id \in RCVIDs : PinVersionUpsert(t, r, id)
    \/ \E t \in Txs, r \in Resources : UnpinVersion(t, r)
    \/ \E t \in Txs : RequestSchedule(t)
    \/ \E t \in Txs : Commit(t)
    \/ \E r \in Resources, comment \in Comments : SetPinComment(r, comment)
    \/ \E r \in Resources : Reload(r)

SpecPins == Init /\ [][NextPins]_vars

\* The store's transactions next to a writer that takes the job rows in
\* ascending order.
NextWriters ==
    \/ \E t \in Txs, r \in Resources, id \in RCVIDs :
           \E op \in {"PinVersion", "EnableVersion", "DisableVersion"} : Begin(t, op, r, id)
    \/ \E t \in Txs, r \in Resources : Begin(t, "UnpinVersion", r, 0)
    \/ \E t \in Txs, r \in Resources, scope \in Scopes :
           Begin(t, "SetResourceConfigScope", r, scope)
    \/ \E t \in Txs, r \in Resources, id \in RCVIDs : PinVersion(t, r, id)
    \/ \E t \in Txs, r \in Resources, id \in RCVIDs : PinVersionUpsert(t, r, id)
    \/ \E t \in Txs, r \in Resources : UnpinVersion(t, r)
    \/ \E t \in Txs, r \in Resources, id \in RCVIDs : EnableVersion(t, r, id)
    \/ \E t \in Txs, r \in Resources, id \in RCVIDs : DisableVersion(t, r, id)
    \/ \E t \in Txs, r \in Resources, scope \in Scopes : SetResourceConfigScope(t, r, scope)
    \/ \E t \in Txs : AscendingWriter(t)
    \/ \E t \in Txs : RequestSchedule(t)
    \/ \E t \in Txs : DeadlockAbort(t)
    \/ \E t \in Txs : Commit(t)

SpecWriters == Init /\ [][NextWriters]_vars

\* The operations that write outside a transaction or without a bump.
NextUpkeep ==
    \/ \E t \in Txs, r \in Resources :
           Begin(t, "SetResourceConfigScope", r, [id |-> 2, config |-> 1])
    \/ \E t \in Txs, r \in Resources :
           SetResourceConfigScope(t, r, [id |-> 2, config |-> 1])
    \/ \E t \in Txs : RequestSchedule(t)
    \/ \E t \in Txs : Commit(t)
    \/ \E r \in Resources, comment \in Comments : SetPinComment(r, comment)
    \/ \E r \in Resources, ref \in {"a", "c"} : UpdateMetadata(r, Version(ref), Metadata("m"))
    \/ \E r \in Resources, version \in {NilVersion, Version("a")} :
           ClearResourceCache(r, version)
    \/ \E r \in Resources : Reload(r)

SpecUpkeep == Init /\ [][NextUpkeep]_vars

\* Reload next to the other writers of the rows it scans.
NextReload ==
    \/ \E r \in Resources, row \in ResourceRows : WriteResourceRow(r, row)
    \/ \E r \in Resources, comment \in Comments : SetPinComment(r, comment)
    \/ \E r \in Resources : Reload(r)

SpecReload == Init /\ [][NextReload]_vars

Pointers == {<<>>} \cup {<<id>> : id \in 1..MaxRows}

Pages == {Page(from, to, limit) : from \in Pointers, to \in Pointers, limit \in 0..MaxLimit}

\* Calls of Versions on a store nothing is committed to meanwhile: the page of
\* a call is the result of one statement, which reads one committed state.
NextVersions ==
    \/ \E page \in Pages, filter \in {{}, Version("a")} : VersionsCall(1, page, filter)
    \/ VersionsOlder
    \/ VersionsNewer

InitPaging == InitBuild /\ InitWatch /\ InitVersions /\ InitCausality /\ InitSetup

SpecVersions == InitPaging /\ [][NextVersions]_vars

\* Calls of Versions for a full page, one of whose steps fails.
NextFailingVersions ==
    \E page \in {p \in Pages : p.Limit = MaxLimit}, step \in Failures :
        VersionsFails(1, page, {}, step)

SpecFailingVersions == InitPaging /\ [][NextFailingVersions]_vars

\* The drain loop with subscribers that stay: process on every payload.
NextProcess ==
    \/ \E notif \in Payloads : \E fetch \in FetchJobs(notif) : DrainProcess(notif, fetch)
    \/ PublishBegin
    \/ PublishSend
    \/ \E s \in Subs : WatchListAllJobs(s)
    \/ \E s \in Subs : Subscribe(s)
    \/ \E s \in Subs : WatchAppend(s)

SpecProcess == Init /\ [][NextProcess]_vars

NextSetup ==
    \/ \E n \in Nodes, err \in BOOLEAN : SetupAcquire(n, err)
    \/ \E n \in Nodes, err \in BOOLEAN : SetupBegin(n, err)
    \/ \E n \in Nodes, err \in BOOLEAN : SetupExec(n, err)
    \/ \E n \in Nodes, err \in BOOLEAN : SetupCommit(n, err)
    \/ \E n \in Nodes : SetupAgain(n)

SpecSetup == Init /\ [][NextSetup]_vars

NextCausality ==
    \/ \E rcvID \in {0, 1, 3} : CausalityCall(1, rcvID)
    \/ WalkStep
    \/ DownstreamDone
    \/ UpstreamDone
    \/ ResourceVersionsPass

SpecCausality == InitTracing /\ [][NextCausality]_vars

\* The chain of builds: version a of resource 1 is an input of build 1, which
\* puts version b of resource 1, an input of build 2, which puts version a of
\* resource 2.
InitReaders ==
    /\ InitTracing
    /\ buildPipes = {<<1, 2>>}
    /\ buildInputs = {<<1, 1, Md5(Version("a"))>>, <<2, 1, Md5(Version("b"))>>}
    /\ buildOutputs = {<<1, 1, Md5(Version("b"))>>, <<2, 2, Md5(Version("a"))>>}

\* Versions and Causality next to transactions that move resource 1 to the
\* scope of resource 2: each statement of the readers runs before or after
\* the commit.
NextReaders ==
    \/ \E t \in Txs : Begin(t, "SetResourceConfigScope", 1, [id |-> 2, config |-> 1])
    \/ \E t \in Txs : SetResourceConfigScope(t, 1, [id |-> 2, config |-> 1])
    \/ \E t \in Txs : RequestSchedule(t)
    \/ \E t \in Txs : Commit(t)
    \/ \E limit \in 1..MaxLimit : VersionsCall(1, Page(<<>>, <<>>, limit), {})
    \/ VersionsOlder
    \/ VersionsNewer
    \/ \E rcvID \in {1, 2} : CausalityCall(1, rcvID)
    \/ WalkStep
    \/ DownstreamDone
    \/ UpstreamDone
    \/ ResourceVersionsPass

SpecReaders == InitReaders /\ [][NextReaders]_vars

\* The database evaluates the queries to their end and the call goes on.
FairSpecCausality ==
    /\ SpecCausality
    /\ WF_vars(WalkStep)
    /\ WF_vars(DownstreamDone)
    /\ WF_vars(UpstreamDone)
    /\ WF_vars(ResourceVersionsPass)

-----------------------------------------------------------------------------
(* Properties of resource.CreateBuild. *)

Errors == {"txError", "notifyError", "reloadError"}

RunningBuildsOf(r) == {b \in BuildsOf(r) : ~builds[b].completed}

\* The step in which call c runs lines 277-304 as an automatic call.
AutoCheckStep(c) ==
    /\ calls[c].pc = "idle"
    /\ calls'[c].pc # "idle"
    /\ ~calls'[c].manuallyTriggered

\* C1: an automatic CreateBuild made while the resource has a build row that is
\* not completed returns (nil, false, nil) and writes nothing: no build row, no
\* change of resources.build_id, no notification, then or later.
C1_AutoCallLeavesRunningBuildBe ==
    [][\A c \in Calls :
          (AutoCheckStep(c) /\ RunningBuildsOf(calls'[c].resource) # {})
              => /\ calls'[c].pc = "done"
                 /\ calls'[c].ret = "noop"
                 /\ calls'[c].retBuild = 0
                 /\ UNCHANGED <<builds, resources, bus, nextBuildID>>]_vars

\* C2: of two automatic calls on one resource that both ran their check while the
\* resource had no build, and both returned without error, exactly one returns
\* (build, true, nil) and the other (nil, false, nil).
C2_ExactlyOneConcurrentCreate ==
    \A c1, c2 \in Calls :
        ( /\ c1 < c2
          /\ calls[c1].resource = calls[c2].resource
          /\ calls[c1].scanned = "noBuild"
          /\ calls[c2].scanned = "noBuild"
          /\ calls[c1].pc = "done" /\ calls[c1].ret \notin Errors
          /\ calls[c2].pc = "done" /\ calls[c2].ret \notin Errors )
        => {calls[c1].ret, calls[c2].ret} = {"created", "noop"}

\* C3: each resource has at most one check build that is not completed.  Stated
\* here for the histories made of automatic calls only, to which "a manually
\* triggered create is never suppressed" does not apply.
C3_AtMostOneInFlight ==
    (\A c \in Calls : ~calls[c].manuallyTriggered)
        => \A r \in Resources : Cardinality(RunningBuildsOf(r)) <= 1

\* C4: a manually triggered CreateBuild never runs the prior-build query and is
\* never suppressed; when it returns without error it returns (build, true, nil)
\* for a committed build row named "check" of its resource.
C4_ManualNeverSuppressed ==
    \A c \in Calls :
        (calls[c].pc # "idle" /\ calls[c].manuallyTriggered)
        => /\ calls[c].scanned = "none"
           /\ calls[c].ret # "noop"
           /\ (calls[c].pc = "done" /\ calls[c].ret \notin Errors)
                 => /\ calls[c].ret = "created"
                    /\ calls[c].retBuild = calls[c].build
                    /\ calls[c].retBuild \in DOMAIN builds
                    /\ builds[calls[c].retBuild].name = CheckBuildName
                    /\ builds[calls[c].retBuild].resource_id = calls[c].resource
                    /\ builds[calls[c].retBuild].manually_triggered

\* A manual call returned its new build while another build of the resource ran.
C4_Witness ==
    \E c \in Calls :
        /\ calls[c].manuallyTriggered
        /\ calls[c].ret = "created"
        /\ \E b \in RunningBuildsOf(calls[c].resource) : b # calls[c].retBuild

NotifiedBy(c) == \E i \in 1..Len(bus) : bus[i].by = c

\* C5: the started build named "check" with resource_id = r and
\* resources.build_id = its id become visible in one step (the commit); a
\* notification is posted on the build tracker channel only by a call whose
\* transaction has committed; a call returns its reloaded build only after its
\* notification; a call whose transaction failed posts nothing.
C5_CommitThenNotifyThenReload ==
    /\ [][/\ \A b \in (DOMAIN builds') \ (DOMAIN builds) :
               /\ builds'[b].name = CheckBuildName
               /\ builds'[b].status = "started"
               /\ ~builds'[b].completed
               /\ resources'[builds'[b].resource_id].build_id = b
               /\ \E c \in Calls : /\ calls[c].build = b
                                   /\ calls[c].resource = builds'[b].resource_id
          /\ \A r \in Resources :
               resources'[r].build_id # resources[r].build_id
                   => resources'[r].build_id \in (DOMAIN builds') \ (DOMAIN builds)
          /\ bus' # bus
               => \E c \in Calls :
                     /\ bus' = Append(bus, [channel |-> ComponentBuildTracker, by |-> c])
                     /\ calls[c].pc = "committed"
                     /\ calls[c].build \in DOMAIN builds
                     /\ resources[calls[c].resource].build_id # 0
          /\ \A c \in Calls :
               (calls'[c].ret = "created" /\ calls[c].ret # "created")
                   => NotifiedBy(c)]_vars
    /\ [](\A c \in Calls :
             /\ NotifiedBy(c) => calls[c].build \in DOMAIN builds
             /\ calls[c].ret = "txError" => ~NotifiedBy(c))

\* A call has committed, notified and returned its build.
C5_Witness ==
    \E c \in Calls :
        /\ calls[c].ret = "created"
        /\ NotifiedBy(c)
        /\ resources[calls[c].resource].build_id = calls[c].retBuild

\* C6: when the Notify after the commit fails, CreateBuild returns the error with
\* a nil build and created = false, while the inserted build row and the
\* resources.build_id link stay committed, so that the query of a later automatic
\* CreateBuild on the resource finds a row.
C6_NotifyFailureKeepsBuild ==
    /\ [](\A c \in Calls :
             calls[c].ret = "notifyError"
                 => /\ calls[c].pc = "done"
                    /\ calls[c].retBuild = 0
                    /\ ~NotifiedBy(c)
                    /\ calls[c].build \in DOMAIN builds
                    /\ builds[calls[c].build].resource_id = calls[c].resource
                    /\ resources[calls[c].resource].build_id \in BuildsOf(calls[c].resource))
    /\ [][\A c \in Calls :
             /\ (calls'[c].ret = "notifyError" /\ calls[c].ret # "notifyError")
                   => UNCHANGED <<builds, resources>>
             /\ calls[c].ret = "notifyError"
                   => \A d \in Calls :
                         (AutoCheckStep(d) /\ calls'[d].resource = calls[c].resource)
                             => calls'[d].scanned # "noBuild"]_vars

\* After a failed Notify, a later automatic call on the resource was suppressed
\* by the build that the failed call left running.
C6_Witness ==
    \E c, d \in Calls :
        /\ c < d
        /\ calls[c].ret = "notifyError"
        /\ calls[d].resource = calls[c].resource
        /\ ~calls[d].manuallyTriggered
        /\ calls[d].ret = "noop"
        /\ RunningBuildsOf(calls[c].resource) = {calls[c].build}

-----------------------------------------------------------------------------
(* Properties of the watcher's fan-out. *)

RECURSIVE Flatten(_)
\* The concatenation of a sequence of batches.
Flatten(batches) ==
    IF batches = <<>> THEN <<>> ELSE Head(batches) \o Flatten(Tail(batches))

\* C7, as claimed: at every moment the batches delivered to the consumer followed
\* by pendingEvents are exactly the events published to the subscription, in
\* order.
C7_DeliveredThenPendingIsPublished ==
    \A s \in Subs : Flatten(delivered[s]) \o pendingEvents[s] = published[s]

\* C7, amended: while sendEvents runs, the batches delivered to the consumer,
\* then the batch sendEvents is forwarding, then pendingEvents, then the batch
\* watchEvents has received and not yet appended, are exactly the events
\* published to the subscription, in order; once sendEvents has returned the
\* delivered events are still a prefix of the published ones.
C7_NothingLostDuplicatedOrReordered ==
    \A s \in Subs :
        /\ spc[s] # "closed"
              => Flatten(delivered[s]) \o eventsToSend[s] \o pendingEvents[s] \o wevts[s]
                     = published[s]
        /\ Len(Flatten(delivered[s])) <= Len(published[s])
        /\ Flatten(delivered[s]) = SubSeq(published[s], 1, Len(Flatten(delivered[s])))

\* A subscription with a batch delivered, another being forwarded and a third
\* event waiting in pendingEvents.
C7_Witness ==
    \E s \in Subs :
        /\ delivered[s] # <<>>
        /\ eventsToSend[s] # <<>>
        /\ pendingEvents[s] # <<>>
        /\ spc[s] = "send"

\* C8: every event published to a subscription whose context is not cancelled
\* and whose consumer keeps reading is eventually delivered to the consumer,
\* without a further notification having to arrive.
C8_EveryPublishedEventIsDelivered ==
    \A s \in Subs :
        (Flatten(delivered[s]) # published[s])
            ~> (cancelled[s] \/ Flatten(delivered[s]) = published[s])

\* C9: once the consumer's context is cancelled, the consumer-facing channel is
\* eventually closed and the inbound channel is eventually removed from the
\* subscriber set by watchEvents.
C9_CancelTearsDown ==
    \A s \in Subs :
        cancelled[s] ~> (spc[s] = "closed" /\ wpc[s] = "done" /\ s \notin subscribers)

\* C10: the step in which drain handles a Healthy = false notification closes the
\* inbound channel of every registered subscriber and leaves the subscriber set
\* empty; a closed channel is never registered, and nothing is published to a
\* subscription after its inbound channel was closed.
C10_UnhealthyTerminatesSubscribers ==
    /\ [][/\ (received' = received + 1 /\ ~healthy')
               => /\ subscribers' = {}
                  /\ \A s \in subscribers : inClosed'[s]
          /\ \A s \in Subs :
               inClosed[s] => /\ inClosed'[s]
                              /\ published'[s] = published[s]]_vars
    /\ [](\A s \in Subs : inClosed[s] => s \notin subscribers)
    /\ [](dpc # "panic")

\* Subscription s received events and was terminated by a marker; subscription t,
\* registered afterwards, received the events of a later notification.
C10_Witness ==
    \E s, t \in Subs :
        /\ inClosed[s]
        /\ published[s] # <<>>
        /\ ~inClosed[t]
        /\ published[t] # <<>>
        /\ healthy

-----------------------------------------------------------------------------
(* Properties of the resource store. *)

\* The operation that returned last is this one, with this result.
Returned(op, r, arg, ret, rows) ==
    lastRet.op = op /\ lastRet = Ret(op, r, arg, ret, rows)

\* C11: when the resource has a pin row with config = true, PinVersion returns
\* ErrPinnedThroughConfig, leaves the pin row and every job's
\* schedule_requested as they are, leaves no transaction open that could
\* change them later, and CurrentPinnedVersion() is still the version the
\* config pins.
C11_PinVersionRejectedByConfigPin ==
    [][\A t \in Txs, r \in Resources, id \in RCVIDs :
          (PinVersion(t, r, id) /\ pins[r].exists /\ pins[r].config)
              => /\ lastRet' = Ret("PinVersion", r, id, "ErrPinnedThroughConfig", 0)
                 /\ pins' = pins
                 /\ scheduleRequested' = scheduleRequested
                 /\ txs' = [txs EXCEPT ![t] = IdleTx]
                 /\ CurrentPinnedVersion(handle'[r]) = pins[r].version]_vars

\* PinVersion of the second version has just been rejected on resource 1, which
\* is pinned through its config to the first.
C11_Witness ==
    /\ Returned("PinVersion", 1, 2, "ErrPinnedThroughConfig", 0)
    /\ pins[1] = PinRow(Version("a"), "", TRUE)
    /\ rcvs[2].version = Version("b")
    /\ CurrentPinnedVersion(handle[1]) = Version("a")

\* C12: a pin row with config = true is immutable through the resource API: no
\* step of PinVersion, UnpinVersion or SetPinComment changes its version,
\* comment, config flag or existence.
C12_ConfigPinImmutable ==
    [][\A r \in Resources :
          (pins[r].exists /\ pins[r].config) => pins'[r] = pins[r]]_vars

\* C13 as stated: once PinVersion(v) has succeeded, CurrentPinnedVersion()
\* returns v, unless the object's configPinnedVersion is set, which it then
\* returns.
C13_PinnedVersionIsCurrentAtOnce ==
    \A r \in Resources, id \in DOMAIN rcvs :
        Returned("PinVersion", r, id, "ok", 1)
            => CurrentPinnedVersion(handle[r]) =
                   IF handle[r].configPinnedVersion # NilVersion
                   THEN handle[r].configPinnedVersion
                   ELSE rcvs[id].version

\* C13, amended: the commit of PinVersion(v) leaves what CurrentPinnedVersion()
\* returns as it was, and a Reload that follows the successful PinVersion(v),
\* no other operation having returned in between, makes it return v, with no
\* config-pinned version set.
C13_PinnedVersionIsCurrentAfterReload ==
    [][/\ \A t \in Txs :
              (Commit(t) /\ txs[t].op = "PinVersion")
                  => \A r \in Resources :
                         CurrentPinnedVersion(handle'[r]) = CurrentPinnedVersion(handle[r])
       /\ \A r \in Resources, id \in DOMAIN rcvs :
              (Reload(r) /\ Returned("PinVersion", r, id, "ok", 1))
                  => /\ CurrentPinnedVersion(handle'[r]) = rcvs[id].version
                     /\ handle'[r].configPinnedVersion = NilVersion]_vars

\* Resource 2, pinned to the first version before, has been pinned to the second
\* version and reloaded.
C13_Witness ==
    /\ Returned("PinVersion", 2, 2, "ok", 1)
    /\ handle[2].apiPinnedVersion = Version("b")
    /\ CurrentPinnedVersion(handle[2]) = Version("b")
    /\ scheduleRequested[2] > 1

\* The database and the other transactions are as they were, and transaction
\* t has ended.
NothingWritten(t) ==
    /\ UNCHANGED <<pins, disabled, resourceScopes, scheduleRequested, rcvs>>
    /\ txs' = [txs EXCEPT ![t] = IdleTx]

\* C14: when the write of EnableVersion, DisableVersion, UnpinVersion or
\* PinVersion affects a number of rows other than one, the operation returns
\* NonOneRowAffectedError with that number, commits nothing and bumps no
\* schedule_requested.
C14_NotOneRowIsAnError ==
    [][\A t \in Txs, r \in Resources, id \in RCVIDs :
          /\ (EnableVersion(t, r, id) /\ ToggleRows(r, id, TRUE) = 0)
                 => /\ lastRet' = Ret("EnableVersion", r, id, "NonOneRowAffectedError", 0)
                    /\ NothingWritten(t)
          /\ (DisableVersion(t, r, id) /\ ToggleRows(r, id, FALSE) = 0)
                 => /\ lastRet' = Ret("DisableVersion", r, id, "NonOneRowAffectedError", 0)
                    /\ NothingWritten(t)
          /\ (UnpinVersion(t, r) /\ ~pins[r].exists)
                 => /\ lastRet' = Ret("UnpinVersion", r, 0, "NonOneRowAffectedError", 0)
                    /\ NothingWritten(t)
          /\ (PinVersionUpsert(t, r, id) /\ ~pins[r].exists /\ id \notin DOMAIN rcvs
                  /\ lastRet'.ret # "error")
                 => /\ lastRet' = Ret("PinVersion", r, id, "NonOneRowAffectedError", 0)
                    /\ NothingWritten(t)]_vars

\* The first page of Versions for resource r, long enough to hold every row.
Listing(r) == Versions(r, Page(<<>>, <<>>, Len(rcvs)), {}).rvs

\* Versions lists the row id of resource r with this Enabled flag.
Lists(r, id, enabled) ==
    LET listing == Listing(r)
    IN \E i \in DOMAIN listing : listing[i].ID = id /\ listing[i].Enabled = enabled

\* C15: a successful DisableVersion(v) adds exactly one row to
\* resource_disabled_versions and a successful EnableVersion(v) removes exactly
\* one; when the EnableVersion(v) follows the DisableVersion(v), no other
\* operation having returned in between, the rows of
\* resource_disabled_versions are those from before the disable; and at any
\* moment Versions lists a version of the resource's scope with Enabled = false
\* exactly when the resource has such a row for it, so with false after the
\* disable and with true after the enable.
C15_DisableEnableRoundTrip ==
    /\ [](\A r \in Resources, id \in DOMAIN rcvs :
              id \in ScopeRows(r)
                  => Lists(r, id, <<r, Md5(rcvs[id].version)>> \notin disabled))
    /\ [][\A t \in Txs, r \in Resources, id \in DOMAIN rcvs :
             LET row == <<r, Md5(rcvs[id].version)>>
                 commits(op) == /\ txs[t].op = op
                                /\ txs[t].resource = r
                                /\ txs[t].arg = id
                                /\ Commit(t)
             IN /\ commits("DisableVersion")
                       => /\ row \notin disabled
                          /\ disabled' = disabled \cup {row}
                /\ commits("EnableVersion")
                       => /\ row \in disabled
                          /\ disabled' = disabled \ {row}
                          /\ Returned("DisableVersion", r, id, "ok", 1)
                                 => disabled' \cup {row} = disabled /\ row \notin disabled']_vars

\* The first version of resource 1 has been disabled and enabled again, while
\* its second version stays disabled.
C15_Witness ==
    /\ Returned("EnableVersion", 1, 1, "ok", 1)
    /\ disabled = {<<1, Md5(Version("b"))>>}
    /\ Lists(1, 1, TRUE)
    /\ Lists(1, 2, FALSE)

\* What PinVersion and UnpinVersion write of a pin row: all but its comment.
Pinned(pin) == IF pin.exists THEN <<pin.version, pin.config>> ELSE <<>>

\* C16: the commit of a PinVersion, UnpinVersion, EnableVersion, DisableVersion
\* or row-writing SetResourceConfigScope sets, in the same step as its write
\* becomes visible, schedule_requested of every job with a job_inputs row for
\* the resource to the now() of the transaction; and no step makes such a
\* write visible without these bumps, or a bump without being such a commit.
C16_BumpCommitsWithTheMutation ==
    [][/\ \A t \in Txs :
              Commit(t)
                  => /\ lastRet' = Ret(txs[t].op, txs[t].resource, txs[t].arg, "ok", 1)
                     /\ txs[t].now >= 1
                     /\ \A j \in Jobs :
                            <<j, txs[t].resource>> \in JobInputs
                                => scheduleRequested'[j] = txs[t].now
       /\ \A r \in Resources :
              (\/ Pinned(pins'[r]) # Pinned(pins[r])
               \/ resourceScopes'[r] # resourceScopes[r]
               \/ {d \in disabled' : d[1] = r} # {d \in disabled : d[1] = r})
                  => \E t \in Txs :
                         /\ Commit(t)
                         /\ txs[t].resource = r
                         /\ \A j \in Jobs :
                                <<j, r>> \in JobInputs
                                    => scheduleRequested'[j] = txs[t].now
       /\ scheduleRequested' # scheduleRequested => \E t \in Txs : Commit(t)]_vars

\* SetResourceConfigScope has moved resource 1 to another scope, and both jobs
\* that use it carry the timestamp of that transaction.
C16_Witness ==
    /\ Returned("SetResourceConfigScope", 1, [id |-> 2, config |-> 1], "ok", 1)
    /\ resourceScopes[1].scope = 2
    /\ scheduleRequested[1] = clock
    /\ scheduleRequested[2] = clock
    /\ clock > 1

\* C17: every mutating operation of the store bumps, when it succeeds,
\* schedule_requested of every job with a job_inputs row for the resource: the
\* commit of a transaction that requests a schedule, and likewise a
\* SetPinComment, UpdateMetadata or ClearResourceCache that has written a row.
C17_EveryMutationBumps ==
    [][\A r \in Resources :
          LET bumped == \A j \in Jobs :
                            <<j, r>> \in JobInputs
                                => scheduleRequested'[j] # scheduleRequested[j]
          IN /\ (\E t \in Txs : Commit(t) /\ txs[t].resource = r) => bumped
             /\ (\E comment \in Comments : SetPinComment(r, comment) /\ pins[r].exists)
                    => bumped
             /\ (\E ref \in {"a", "c"} :
                     /\ UpdateMetadata(r, Version(ref), Metadata("m"))
                     /\ MetadataRows(handle[r], Version(ref)) # {})
                    => bumped
             /\ (\E version \in {NilVersion, Version("a")} :
                     /\ ClearResourceCache(r, version)
                     /\ workerCaches' # workerCaches)
                    => bumped]_vars

\* C18: SetResourceConfigScope(s) writes the resources row exactly when its
\* resource_config_id or resource_config_scope_id is NULL or differs from s;
\* when it writes, the row is s once the transaction has committed; when it
\* does not, it returns success with the row, every schedule_requested and the
\* open transactions unchanged -- as in a second call with the scope the call
\* before it has just set.
C18_ScopeWrittenOnlyWhenItDiffers ==
    [][\A t \in Txs, r \in Resources, scope \in Scopes :
          /\ SetResourceConfigScope(t, r, scope)
                 => LET row == resourceScopes[r]
                        differs == \/ row.config = Null
                                   \/ row.scope = Null
                                   \/ row.config # scope.config
                                   \/ row.scope # scope.id
                    IN /\ differs <=> txs'[t] = Wrote(t)
                       /\ ~differs => /\ lastRet'.ret = "ok" /\ lastRet'.rows = 0
                                      /\ NothingWritten(t)
                       /\ (\E rows \in {0, 1} :
                               Returned("SetResourceConfigScope", r, scope, "ok", rows))
                              => ~differs
          /\ (Commit(t) /\ txs[t].op = "SetResourceConfigScope" /\ txs[t].resource = r
                  /\ txs[t].arg = scope)
                 => resourceScopes'[r] = [resourceScopes[r] EXCEPT !.config = scope.config,
                                                                   !.scope = scope.id]]_vars

\* Resource 1 has been moved to scope 2 and bumped its jobs; a second
\* SetResourceConfigScope with scope 2 has returned without writing.
C18_Witness ==
    /\ Returned("SetResourceConfigScope", 1, [id |-> 2, config |-> 1], "ok", 0)
    /\ resourceScopes[1] = ResourceRow(1, 2)
    /\ scheduleRequested[1] = 1
    /\ scheduleRequested[2] = 1
    /\ clock = 2

\* C19 as stated: no reachable state has two transactions, each holding a job
\* row lock the other is waiting for -- whatever the order in which the other
\* writer takes the job rows.
C19_NoDeadlockWithAnyWriter ==
    \A t, u \in Txs : ~Deadlocked(t, u)

\* C19, amended: two transactions that both run
\* requestScheduleForJobsUsingResource never hold a job row lock each that the
\* other is waiting for; every deadlock has the writer that takes the job rows
\* in ascending order as one of its two transactions.
C19_NoDeadlockAmongDescendingWriters ==
    \A t, u \in Txs :
        Deadlocked(t, u) => (txs[t].op = "ascending" \/ txs[u].op = "ascending")

\* Two transactions of the store are bumping jobs at once: one holds the row of
\* a job, the other waits for it, and the holder is free to go on.
C19_Witness ==
    \E t, u \in Txs :
        /\ WaitsFor(t, u)
        /\ txs[t].op # "ascending"
        /\ txs[u].op # "ascending"
        /\ txs[u].todo # <<>>
        /\ ~JobLocked(Head(txs[u].todo), u)

-----------------------------------------------------------------------------
(* Properties of Versions. *)

\* A call of Versions has returned.
VersionsReturned == versionsOut.out # <<>>

\* The call of Versions made, and what it returned.
CalledResource == versionsOut.call[1]

CalledPage == versionsOut.call[2]

CalledFilter == versionsOut.call[3]

ReturnedRows == versionsOut.out[1].rvs

ReturnedIDs == {ReturnedRows[i].ID : i \in DOMAIN ReturnedRows}

\* The rows a From page is cut from: those of the resource's scope that
\* contain the filter and whose check_order is at or above that of row from.
AtOrAbove(from) ==
    {id \in DOMAIN rcvs :
        /\ rcvs[id].scope = resourceScopes[CalledResource].scope
        /\ CalledFilter \subseteq rcvs[id].version
        /\ from \in DOMAIN rcvs
        /\ rcvs[id].check_order >= rcvs[from].check_order}

\* C20: in its three paging modes Versions returns at most page.Limit rows, in
\* strictly descending check_order; with page.From set they are the Limit rows
\* of smallest check_order at or above the bound (all of them when there are
\* fewer), newest first.
C20_PageIsDescendingAndLimited ==
    VersionsReturned
        => /\ Len(ReturnedRows) <= CalledPage.Limit
           /\ \A i, j \in DOMAIN ReturnedRows :
                  i < j => rcvs[ReturnedRows[i].ID].check_order
                               > rcvs[ReturnedRows[j].ID].check_order
           /\ CalledPage.From # <<>>
                  => LET candidates == AtOrAbove(CalledPage.From[1])
                     IN /\ ReturnedIDs \subseteq candidates
                        /\ Cardinality(ReturnedIDs) = Len(ReturnedRows)
                        /\ \/ Len(ReturnedRows) = CalledPage.Limit
                           \/ ReturnedIDs = candidates
                        /\ \A x \in ReturnedIDs, y \in candidates \ ReturnedIDs :
                               rcvs[x].check_order < rcvs[y].check_order

\* A From page of two rows cut from three candidates whose ids do not follow
\* their check_order: the newest candidate is left out.
C20_Witness ==
    /\ VersionsReturned
    /\ CalledPage.From # <<>>
    /\ CalledPage.Limit = 2
    /\ Len(ReturnedRows) = 2
    /\ Cardinality(AtOrAbove(CalledPage.From[1])) = 3
    /\ ReturnedRows[1].ID < ReturnedRows[2].ID

\* The rows of the called resource's scope that contain the filter.
Matching ==
    {id \in DOMAIN rcvs :
        /\ rcvs[id].scope = resourceScopes[CalledResource].scope
        /\ CalledFilter \subseteq rcvs[id].version}

\* C21 as stated: the version page.From (or, without From, page.To)
\* identifies is never among the rows Versions returns.
C21_BoundsAreExclusive ==
    VersionsReturned
        => /\ CalledPage.From # <<>> => CalledPage.From[1] \notin ReturnedIDs
           /\ (CalledPage.From = <<>> /\ CalledPage.To # <<>>)
                  => CalledPage.To[1] \notin ReturnedIDs

\* C21: page.From is an inclusive lower bound and page.To an inclusive upper
\* bound on check_order: every returned row is at or above the row From
\* names (at or below the row To names), and that row itself is returned, as
\* the oldest row of a From page and the newest of a To page, whenever it
\* is a row of the resource's scope that contains the filter and Limit >= 1.
C21_BoundsAreInclusive ==
    VersionsReturned
        => /\ CalledPage.From # <<>>
                  => LET from == CalledPage.From[1]
                     IN /\ \A id \in ReturnedIDs :
                               /\ from \in DOMAIN rcvs
                               /\ rcvs[id].check_order >= rcvs[from].check_order
                        /\ (from \in Matching /\ CalledPage.Limit >= 1)
                               => /\ ReturnedRows # <<>>
                                  /\ ReturnedRows[Len(ReturnedRows)].ID = from
           /\ (CalledPage.From = <<>> /\ CalledPage.To # <<>>)
                  => LET to == CalledPage.To[1]
                     IN /\ \A id \in ReturnedIDs :
                               /\ to \in DOMAIN rcvs
                               /\ rcvs[id].check_order <= rcvs[to].check_order
                        /\ (to \in Matching /\ CalledPage.Limit >= 1)
                               => /\ ReturnedRows # <<>>
                                  /\ ReturnedRows[1].ID = to

\* A To page of two rows whose newest row is the row To names.
C21_Witness ==
    /\ VersionsReturned
    /\ CalledPage.From = <<>>
    /\ CalledPage.To # <<>>
    /\ Len(ReturnedRows) = 2
    /\ ReturnedRows[1].ID = CalledPage.To[1]

\* The rows of the called resource's scope, whatever the filter: the scope is
\* that of the rows the page query has returned.
InScope == {id \in DOMAIN rcvs : rcvs[id].scope = rcvs[ReturnedRows[1].ID].scope}

\* The rows of the scope strictly below the oldest row returned, and those
\* strictly above the newest.
BelowPage ==
    {id \in InScope :
        rcvs[id].check_order < rcvs[ReturnedRows[Len(ReturnedRows)].ID].check_order}

AbovePage == {id \in InScope : rcvs[id].check_order > rcvs[ReturnedRows[1].ID].check_order}

\* C22: for a non-empty page, Pagination.Older is set exactly when the scope
\* of the resource, in which the page query has found its rows, holds a row
\* strictly below the oldest row returned, and then its To names the nearest
\* such row; Pagination.Newer is set exactly when that scope holds a row
\* strictly above the newest row returned, and then its From names the
\* nearest such row; both carry the Limit of the request.
C22_CursorsPointAtNearestRows ==
    (VersionsReturned /\ ReturnedRows # <<>>)
        => LET out == versionsOut.out[1]
           IN /\ (out.Older # <<>>) <=> (BelowPage # {})
              /\ out.Older # <<>>
                     => /\ out.Older[1].From = <<>>
                        /\ out.Older[1].Limit = CalledPage.Limit
                        /\ \E x \in BelowPage :
                               /\ out.Older[1].To = <<x>>
                               /\ \A y \in BelowPage :
                                      rcvs[y].check_order <= rcvs[x].check_order
              /\ (out.Newer # <<>>) <=> (AbovePage # {})
              /\ out.Newer # <<>>
                     => /\ out.Newer[1].To = <<>>
                        /\ out.Newer[1].Limit = CalledPage.Limit
                        /\ \E x \in AbovePage :
                               /\ out.Newer[1].From = <<x>>
                               /\ \A y \in AbovePage :
                                      rcvs[x].check_order <= rcvs[y].check_order

-----------------------------------------------------------------------------
(* Properties of UpdateMetadata. *)

\* C23: UpdateMetadata returns true exactly when its UPDATE matched a row of
\* resource_config_versions with the scope of the resource object and the
\* md5 of the version; when it matched none it returns false without error.
C23_UpdateMetadataTrueOnlyOnMatch ==
    lastRet.op = "UpdateMetadata"
        => /\ (lastRet.ret = "ok") <=> (lastRet.rows >= 1)
           /\ lastRet.rows = 0 => lastRet.ret = "notFound"

-----------------------------------------------------------------------------
(* Properties of Causality. *)

\* Build b has version id as an input (edges = buildInputs) or as an output
\* (edges = buildOutputs): a row of some resource whose scope holds the version.
Linked(edges, b, id) ==
    \E r \in Resources :
        /\ <<b, r, Md5(rcvs[id].version)>> \in edges
        /\ resourceScopes[r].scope = rcvs[id].scope

\* The call of Causality has returned (root, true, nil).
CausalityFound == walk.pc = "done" /\ walk.found

\* C24: when the root version v is the only input of build B1, B1 outputs w,
\* w is an input of build B2, build_pipes links B1 to B2, B2 outputs x and no
\* build outputs v, the graph Causality(v) returns has B1 in v.InputTo, w in
\* B1.Outputs, B2 in w.InputTo, x in B2.Outputs, and v.OutputOf is empty.
C24_ChainReachesSecondBuild ==
    CausalityFound
        => \A b1, b2 \in BuildIDs, w, x \in DOMAIN rcvs :
               LET g == walk.graph
                   root == <<"root", walk.root>>
               IN (/\ {e \in buildInputs : e[1] = b1}
                          = {<<b1, walk.resource, walk.md5>>}
                   /\ Linked(buildOutputs, b1, w)
                   /\ Linked(buildInputs, b2, w)
                   /\ <<b1, b2>> \in buildPipes
                   /\ Linked(buildOutputs, b2, x)
                   /\ \A b \in BuildIDs : ~Linked(buildOutputs, b, walk.root))
                      => /\ \E n1 \in {"down"} \X {b1}, n2 \in {"down"} \X {b2},
                               nw \in {"down"} \X {w}, nx \in {"down"} \X {x} :
                               /\ <<root, n1>> \in g.InputTo
                               /\ <<n1, nw>> \in g.Outputs
                               /\ <<nw, n2>> \in g.InputTo
                               /\ <<n2, nx>> \in g.Outputs
                         /\ \A e \in g.OutputOf : e[1] # root

\* C25: the downstream and the upstream walk end for every finite set of
\* builds, pipes and edges, a cycle of build_pipes included: a call of
\* Causality that has found its version returns.
C25_WalksTerminate == (walk.pc \notin {"idle", "done"}) ~> (walk.pc = "done")

\* The pointers of the graph, each node tagged with its kind.
Arcs ==
    {<<<<"version", e[1]>>, <<"build", e[2]>>>> :
        e \in walk.graph.InputTo \cup walk.graph.OutputOf}
        \cup {<<<<"build", e[1]>>, <<"version", e[2]>>>> :
                 e \in walk.graph.Outputs \cup walk.graph.Inputs}

RECURSIVE ReachableFrom(_)
\* The nodes that can be reached from those of S by following pointers.
ReachableFrom(S) ==
    LET next == S \cup {a[2] : a \in {x \in Arcs : x[1] \in S}}
    IN IF next = S THEN S ELSE ReachableFrom(next)

\* The nodes of the graph Causality returns.
ReturnedNodes == ReachableFrom({<<"version", <<"root", walk.root>>>>})

\* C26: in the graph Causality returns every resource config version is one
\* node and every build is one node: no two nodes of the same kind carry
\* the same id, also for what both walks encounter.
C26_OneNodePerVersionAndBuild ==
    CausalityFound
        => \A n1, n2 \in ReturnedNodes :
               (n1[1] = n2[1] /\ n1[2][2] = n2[2][2]) => n1 = n2

\* C34: disabled versions are kept per resource: the commit of a
\* DisableVersion or EnableVersion of resource a writes rows of
\* resource_disabled_versions with resource_id = a only, and for every other
\* resource b, one sharing the scope of a included, the Enabled flag Versions
\* reports for each version, the pin and the scope are what they were.
C34_DisabledVersionsArePerResource ==
    [][\A t \in Txs, a \in Resources, b \in Resources :
          (/\ Commit(t)
           /\ txs[t].op \in {"EnableVersion", "DisableVersion"}
           /\ txs[t].resource = a
           /\ b # a)
              => /\ \A d \in (disabled' \ disabled) \cup (disabled \ disabled') : d[1] = a
                 /\ disabled' # disabled
                 /\ pins'[b] = pins[b]
                 /\ resourceScopes'[b] = resourceScopes[b]
                 /\ \A id \in DOMAIN rcvs :
                        ResourceVersion(b, id)' = ResourceVersion(b, id)]_vars

\* Resources 1 and 2 share scope 1; DisableVersion has returned for the first
\* version on resource 1, and Versions lists that version as disabled for
\* resource 1 and as enabled for resource 2.
C34_Witness ==
    /\ resourceScopes[1].scope = 1
    /\ resourceScopes[2].scope = 1
    /\ Returned("DisableVersion", 1, 1, "ok", 1)
    /\ disabled = {<<1, Md5(rcvs[1].version)>>}
    /\ Lists(1, 1, FALSE)
    /\ Lists(2, 1, TRUE)

\* C39: after Reload has returned (true, nil) the resource object holds what
\* the row holds: its pin, its comment, its resource_config_id and
\* resource_config_scope_id, 0 when the column is NULL, and its build, nil
\* without a build_id; and Reload returns (false, nil), leaving the object as
\* it is, exactly when the resource has no active row.
C39_ReloadMirrorsTheRow ==
    [][\A r \in Resources :
          Reload(r)
              => LET row == resourceScopes[r]
                     pin == pins[r]
                     h == handle'[r]
                 IN /\ ReloadFound(r) <=> row.active
                    /\ ~ReloadFound(r) => h = handle[r]
                    /\ ReloadFound(r)
                          => /\ h.resourceConfigID = row.config
                             /\ h.resourceConfigScopeID = row.scope
                             /\ h.buildSummary = row.build
                             /\ h.pinComment = (IF pin.exists THEN pin.comment_text ELSE "")
                             /\ CurrentPinnedVersion(h)
                                    = (IF pin.exists THEN pin.version ELSE NilVersion)]_vars

\* C32: Versions surfaces every error of its transaction: a call during which
\* a step fails returns a non-nil error, and no call returns nil, an empty
\* pagination, found = false and a nil error.
C32_VersionsSurfacesErrors ==
    VersionsReturned
        => LET call == versionsOut.call
               out == versionsOut.out[1]
           IN /\ (Len(call) = 4 /\ Reaches(call[1], call[2], call[3], call[4]))
                     => out.err # "nil"
              /\ ~(out.rvs = <<>> /\ out.Older = <<>> /\ out.Newer = <<>>
                       /\ ~out.found /\ out.err = "nil")

\* rcvID is the id of a row of the scope the resources row of r points to.
InCurrentScope(r, rcvID) ==
    rcvID \in DOMAIN rcvs /\ rcvs[rcvID].scope = resourceScopes[r].scope

\* C33: Causality(rcvID) returns found = false with a nil error and makes
\* neither walk when rcvID is not a version of the resource's current scope,
\* be it that no row has that id or that the row is of another scope: the
\* call returns at once with an empty graph, and no query is evaluated after.
C33_UnknownVersionIsNotFound ==
    /\ [][\A r \in Resources, rcvID \in 0..Len(rcvs) + 1 :
              (CausalityCall(r, rcvID) /\ ~InCurrentScope(r, rcvID))
                  => /\ walk'.pc = "done"
                     /\ ~walk'.found
                     /\ walk'.err = "nil"
                     /\ walk'.ids = {}
                     /\ walk'.graph = NoGraph]_vars
    /\ [][(walk.pc = "done" /\ ~walk.found) => walk' = walk]_vars

-----------------------------------------------------------------------------
(* Properties of ListAllJobsWatcher.process. *)

WatchedTables == {"jobs", "pipelines", "teams"}

\* The events one call of process publishes: what it hands to publishEvents.
PublishedBy(notif, fetch) ==
    IF DrainProcess(notif, fetch) /\ dpc' = "publish" THEN devts' ELSE <<>>

\* C27: with a subscriber, process publishes a Delete event for job j exactly
\* for a jobs DELETE notification for j, whatever the dashboard holds, and
\* for a jobs UPDATE notification for j whose re-query returns no rows;
\* an empty re-query for a jobs INSERT, a pipelines or a teams update
\* publishes nothing.
C27_DeleteOnlyForDeletedOrDeactivatedJob ==
    [][\A notif \in Payloads : \A fetch \in FetchJobs(notif) :
          (DrainProcess(notif, fetch) /\ subscribers # {})
              => LET evts == PublishedBy(notif, fetch)
                     empty == ~fetch.err /\ fetch.jobs = <<>>
                 IN /\ \A j \in 0..NumJobs :
                           (\E i \in DOMAIN evts : evts[i] = Event(j, "Delete"))
                               <=> /\ notif.JSON
                                   /\ notif.Table = "jobs"
                                   /\ Atoi(notif.ID) = [val |-> j, err |-> FALSE]
                                   /\ \/ notif.Operation = "DELETE"
                                      \/ notif.Operation = "UPDATE" /\ empty
                    /\ (/\ empty
                        /\ ~(notif.Table = "jobs" /\ notif.Operation \in {"UPDATE", "DELETE"}))
                           => evts = <<>>]_vars

\* C28: for a jobs INSERT or UPDATE, pipelines UPDATE or teams UPDATE
\* notification whose re-query returns k >= 1 jobs, process publishes one
\* batch of exactly k Put events, the i-th carrying the id and the summary
\* of the i-th job returned, and publishEvents sends that whole batch to
\* each subscriber; a notification for any other table publishes nothing.
C28_OnePutPerFetchedJob ==
    [][/\ \A notif \in Payloads : \A fetch \in FetchJobs(notif) :
              (DrainProcess(notif, fetch) /\ subscribers # {})
                  => LET evts == PublishedBy(notif, fetch)
                     IN /\ (/\ notif.JSON
                            /\ \/ notif.Table = "jobs" /\ notif.Operation \in {"INSERT", "UPDATE"}
                               \/ notif.Table \in {"pipelines", "teams"}
                                      /\ notif.Operation = "UPDATE"
                            /\ ~Atoi(notif.ID).err
                            /\ ~fetch.err
                            /\ Len(fetch.jobs) >= 1)
                               => /\ Len(evts) = Len(fetch.jobs)
                                  /\ \A i \in DOMAIN evts :
                                         /\ evts[i].Type = "Put"
                                         /\ evts[i].ID = fetch.jobs[i].ID
                                         /\ evts[i].Job = <<fetch.jobs[i]>>
                        /\ (notif.JSON /\ notif.Table \notin WatchedTables) => evts = <<>>
       /\ PublishSend
              => /\ published'[dcur] = published[dcur] \o devts
                 /\ dpc' = "recv" => \A s \in subscribers :
                                         /\ Len(published'[s]) >= Len(devts)
                                         /\ SubSeq(published'[s],
                                                   Len(published'[s]) - Len(devts) + 1,
                                                   Len(published'[s])) = devts]_vars

\* Both subscribers have been sent the batch of two Put events published for
\* a pipelines UPDATE.
C28_Witness ==
    /\ dpc = "recv"
    /\ received = 1
    /\ \A s \in Subs :
          /\ Len(published[s]) = 2
          /\ \A i \in 1..2 : published[s][i] = [ID |-> i, Type |-> "Put", Job |-> <<JobSummary(i)>>]

\* C29: a notification whose processing fails -- a payload that is not JSON,
\* an id that is not an integer, a failed dashboard query -- publishes no
\* event and leaves the drain loop receiving and the subscribers as they are.
C29_FailedNotificationIsSkipped ==
    [][\A notif \in Payloads : \A fetch \in FetchJobs(notif) :
          (/\ DrainProcess(notif, fetch)
           /\ subscribers # {}
           /\ \/ ~notif.JSON
              \/ notif.Table \in WatchedTables /\ Atoi(notif.ID).err
              \/ /\ notif.Table \in WatchedTables
                 /\ ~(notif.Table = "jobs" /\ notif.Operation = "DELETE")
                 /\ fetch.err)
              => /\ PublishedBy(notif, fetch) = <<>>
                 /\ dpc' = "recv"
                 /\ subscribers' = subscribers]_vars

-----------------------------------------------------------------------------
(* Properties of ListAllJobsWatcher.setupTriggers. *)

\* C30: a setupTriggers that does not acquire the lock CreateWatchTriggers
\* returns success without beginning a transaction or installing anything;
\* one that acquires it installs the notify function and the triggers of
\* jobs, pipelines and teams in one transaction, all of them or none; and
\* whenever setupTriggers has returned, with or without an error, it does
\* not hold the lock.
C30_TriggersInstalledUnderTheLock ==
    /\ [](/\ installed \in {{}, {"function", "jobs", "pipelines", "teams"}}
          /\ \A n \in Nodes :
                /\ setups[n].pc = "done" => lockHolder # n
                /\ setups[n].pc \in {"begin", "tx", "commit"} => lockHolder = n
                /\ (setups[n].pc = "done" /\ setups[n].ret = "nil" /\ setups[n].began)
                       => installed = {"function", "jobs", "pipelines", "teams"})
    /\ [][\A n \in Nodes :
              /\ (SetupAcquire(n, FALSE) /\ lockHolder # 0)
                     => /\ setups'[n] = [NoSetup EXCEPT !.pc = "done", !.ret = "nil"]
                        /\ installed' = installed
                        /\ lockHolder' = lockHolder
              /\ installed' # installed
                     => \E m \in Nodes : SetupCommit(m, FALSE) /\ lockHolder = m]_vars

\* Node 1 has installed the function and the triggers and has released the
\* lock; node 2, which found the lock held, has returned success without a
\* transaction.
C30_Witness ==
    /\ setups[1] = [NoSetup EXCEPT !.pc = "done", !.ret = "nil", !.began = TRUE]
    /\ setups[2] = [NoSetup EXCEPT !.pc = "done", !.ret = "nil"]
    /\ installed = {"function", "jobs", "pipelines", "teams"}
    /\ lockHolder = 0

-----------------------------------------------------------------------------
(* Further properties of ListAllJobsWatcher. *)

\* C31: every call of publishEvents eventually returns, so that the drain
\* loop receives again, whatever the consumers do.
C31_PublishEventsReturns == (dpc \in {"publish", "sending"}) ~> (dpc = "recv")

\* Subscription s, for which WatchListAllJobs has returned, is passed over
\* by this step: process finds no subscriber and drops the events, or the
\* range of publishEvents starts, while s is not registered yet.
PassedOver(s) ==
    /\ started[s]
    /\ wpc[s] = "subscribe"
    /\ \/ PublishBegin
       \/ \E notif \in Notifications : \E fetch \in FetchJobs(notif) :
              /\ DrainProcess(notif, fetch)
              /\ subscribers = {}
              /\ Process(notif, fetch).evts # <<>>

\* C35: once WatchListAllJobs has returned, no notification processed
\* afterwards is skipped for the subscription because its inbound channel
\* is not registered yet.
C35_NoEventMissedAfterSubscribing == [][\A s \in Subs : ~PassedOver(s)]_vars

\* C36: after a Healthy = false marker has closed the inbound channel of a
\* subscription, its consumer-facing channel is eventually closed, also when
\* the consumer never cancels its context.
C36_TerminatedSubscriptionIsClosed ==
    \A s \in Subs : inClosed[s] ~> (spc[s] = "closed")

\* C37: no channel is sent on or closed after it was closed: an inbound
\* channel that is closed is not registered any more, so that it is neither
\* closed again by terminateSubscribers nor sent on by publishEvents, which
\* never panics; the consumer-facing channel is closed by sendEvents only,
\* with its return, and nothing is delivered on it afterwards.
C37_NoUseAfterClose ==
    /\ [](/\ dpc # "panic"
          /\ \A s \in Subs : inClosed[s] => s \notin subscribers \cup dtodo \cup {dcur})
    /\ [][\A s \in Subs :
              /\ inClosed[s] => (inClosed'[s] /\ published'[s] = published[s])
              /\ spc[s] = "closed"
                     => (spc'[s] = "closed" /\ delivered'[s] = delivered[s])
              /\ (spc[s] # "closed" /\ spc'[s] = "closed") => SendEventsCtxDone(s)]_vars

\* A subscription both of whose channels are closed, after events were
\* delivered on it, while a later subscription is being published to.
C37_Witness ==
    \E s, t \in Subs :
        /\ inClosed[s]
        /\ spc[s] = "closed"
        /\ delivered[s] # <<>>
        /\ ~inClosed[t]
        /\ dpc = "sending"
        /\ dcur = t

\* C38: every batch sendEvents forwards holds at least one event: the batch
\* it has taken from pendingEvents, and every batch delivered.
C38_NoEmptyBatch ==
    \A s \in Subs :
        /\ spc[s] = "send" => eventsToSend[s] # <<>>
        /\ \A i \in DOMAIN delivered[s] : delivered[s][i] # <<>>

\* sendEvents forwards a second batch while events appended in the meantime,
\* whose signal was dropped, wait in pendingEvents.
C38_Witness ==
    \E s \in Subs :
        /\ Len(delivered[s]) = 1
        /\ spc[s] = "send"
        /\ eventsToSend[s] # <<>>
        /\ pendingEvents[s] # <<>>

====
